---- MODULE Spec2Model ----
(***************************************************************************)
(* A model of py_igsdb_base_data: the BaseProduct record with its          *)
(* enum-validated fields, its derived thermal / wavelength / composition   *)
(* accessors, the BlindGeometry rise <-> curvature conversion, and the     *)
(* integrated spectral averages with their factories and getters.          *)
(*                                                                         *)
(* Python values are encoded as follows.                                   *)
(*   - Optional[T]: None is the empty tuple, a present value x is <<x>>.   *)
(*   - list: a sequence.                                                   *)
(*   - a dataclass instance: a record of its fields (always truthy).       *)
(*   - a call: a record [exc, value]; exc is None when the call returned,  *)
(*     <<e>> when it raised e.                                             *)
(***************************************************************************)
EXTENDS Integers, Sequences, FiniteSets, TLC

VARIABLES product, geometry, values, ret

vars == <<product, geometry, values, ret>>

-----------------------------------------------------------------------------
(* Python values *)

None == << >>

Some(x) == <<x>>

IsNone(o) == o = None

Get(o) == o[1]

Return(v) == [exc |-> None, value |-> v]

Raise(e) == [exc |-> Some(e), value |-> None]

Raised(r) == r.exc # None

\* bool(x) of an Optional number: None and 0 are falsy
TruthyNumber(o) == o # None /\ Get(o) # 0

\* bool(x) of an Optional dataclass instance or Optional bool flag
TruthyObject(o) == o # None

TruthyFlag(o) == o # None /\ Get(o) = TRUE

-----------------------------------------------------------------------------
(* Enumerations: member name |-> member value *)

TokenType ==
    [ PUBLISHED  |-> "published",
      UNDEFINED  |-> "undefined",
      PROPOSED   |-> "proposed",
      INTRAGROUP |-> "intragroup",
      INTERGROUP |-> "intergroup" ]

ProductType ==
    [ GLAZING  |-> "glazing",
      SHADING  |-> "shading",
      MATERIAL |-> "material" ]

ProductSubtype ==
    [ MONOLITHIC        |-> "Monolithic",
      LAMINATE          |-> "Laminate",
      INTERLAYER        |-> "Interlayer",
      EMBEDDED_COATING  |-> "Embedded coating",
      COATED            |-> "Coated glass",
      COATING           |-> "Coating",
      APPLIED_FILM      |-> "Applied film",
      FILM              |-> "Film",
      FRITTED_GLASS     |-> "Fritted glass",
      SANDBLASTED_GLASS |-> "Sandblasted glass",
      ACID_ETCHED_GLASS |-> "Acid etched glass",
      CHROMOGENIC       |-> "Chromogenic",
      VENETIAN_BLIND    |-> "Venetian blind",
      VERTICAL_LOUVER   |-> "Vertical louver",
      PERFORATED_SCREEN |-> "Perforated screen",
      WOVEN_SHADE       |-> "Woven shade",
      ROLLER_SHADE      |-> "Roller shade",
      CELLULAR_SHADE    |-> "Cellular shade",
      PLEATED_SHADE     |-> "Pleated Shade",
      ROMAN_SHADE       |-> "Roman shade",
      DIFFUSING_SHADE   |-> "Diffusing shade",
      SOLAR_SCREEN      |-> "Solar screen",
      SHADE_MATERIAL    |-> "Shade material",
      UNKNOWN           |-> "Unknown" ]

\* variant: Enum(value), a lookup by member value
EnumByValue(enum, name) ==
    IF \E n \in DOMAIN enum : enum[n] = name
    THEN Return(Some(name))
    ELSE Raise("KeyError")

\* Enum[name]: the member of that name, KeyError when there is none
EnumGetItem(enum, name) ==
    IF name \in DOMAIN enum
    THEN Return(Some(enum[name]))
    ELSE Raise("KeyError")

-----------------------------------------------------------------------------
(* Records *)

\* OpticalProperties(optical_data=...): optical_data defaults to None,
\* optical_data_type to OpticalDataType.DISCRETE.name
OpticalProperties(optical_data) ==
    [optical_data_type |-> Some("DISCRETE"), optical_data |-> optical_data]

\* variant: PhysicalProperties(...) without __post_init__
PhysicalProperties_without_post_init(optical_properties, tir_front, tir_back, em_front, em_back) ==
    [ optical_properties          |-> optical_properties,
      predefined_tir_front        |-> tir_front,
      predefined_tir_back         |-> tir_back,
      predefined_emissivity_front |-> em_front,
      predefined_emissivity_back  |-> em_back ]

\* PhysicalProperties(...) after __post_init__
PhysicalProperties(optical_properties, tir_front, tir_back, em_front, em_back) ==
    [ optical_properties          |-> IF optical_properties = None
                                      THEN Some(OpticalProperties(None))
                                      ELSE optical_properties,
      predefined_tir_front        |-> tir_front,
      predefined_tir_back         |-> tir_back,
      predefined_emissivity_front |-> em_front,
      predefined_emissivity_back  |-> em_back ]

\* BaseProduct() with every argument defaulted
DefaultProduct ==
    [ type                |-> None,
      subtype             |-> None,
      token_type          |-> None,
      product_description |-> None,
      composition         |-> << >>,
      integrated_spectral_averages_summaries |-> << >>,
      physical_properties |-> None ]

\* IntegratedSpectralAveragesSummaryValues() with every argument defaulted
DefaultSummaryValues ==
    [ solar |-> None, photopic |-> None, thermal_ir |-> None, tuv |-> None,
      spf |-> None, tdw |-> None, tkr |-> None, color |-> None ]

\* BlindGeometry() with every argument defaulted
DefaultGeometry ==
    [ rise_          |-> None,
      slat_width     |-> None,
      slat_spacing   |-> None,
      slat_curvature |-> None,
      slat_tilt      |-> None,
      n_segments     |-> Some(5),
      tilt_choice    |-> None ]

\* the outcome of the last operation: its name, arguments and result
Outcome(op, args, r) == [op |-> op, args |-> args, exc |-> r.exc, value |-> r.value]

NoOutcome == Outcome("none", << >>, Return(None))

-----------------------------------------------------------------------------
(* Enum-validated fields of BaseProduct *)

InvalidEnumValue(what, v) == [type |-> "ValueError", what |-> what, value |-> v]

\* a setter's result: the object after the call and what the call returned
Effect(self, r) == [self |-> self, res |-> r]

\* variant: set_type validating against the member values
set_type_by_value(self, v) ==
    IF v # None /\ Raised(EnumByValue(ProductType, Get(v)))
    THEN Effect(self, Raise(InvalidEnumValue("product type", Get(v))))
    ELSE Effect([self EXCEPT !.type = v], Return(None))

\* BaseProduct.set_type
set_type(self, v) ==
    IF v # None /\ Raised(EnumGetItem(ProductType, Get(v)))
    THEN Effect(self, Raise(InvalidEnumValue("product type", Get(v))))
    ELSE Effect([self EXCEPT !.type = v], Return(None))

\* variant: set_subtype validating against the member values
set_subtype_by_value(self, v) ==
    IF v # None /\ Raised(EnumByValue(ProductSubtype, Get(v)))
    THEN Effect(self, Raise(InvalidEnumValue("product subtype", Get(v))))
    ELSE Effect([self EXCEPT !.subtype = v], Return(None))

\* variant: set_subtype without the lookup
set_subtype_unchecked(self, v) ==
    Effect([self EXCEPT !.subtype = v], Return(None))

\* BaseProduct.set_subtype
set_subtype(self, v) ==
    IF v # None /\ Raised(EnumGetItem(ProductSubtype, Get(v)))
    THEN Effect(self, Raise(InvalidEnumValue("product subtype", Get(v))))
    ELSE Effect([self EXCEPT !.subtype = v], Return(None))

\* variant: set_token_type storing the value before the lookup
set_token_type_storing_first(self, v) ==
    IF v # None /\ Raised(EnumGetItem(TokenType, Get(v)))
    THEN Effect([self EXCEPT !.token_type = v],
                Raise(InvalidEnumValue("product token type", Get(v))))
    ELSE Effect([self EXCEPT !.token_type = v], Return(None))

\* BaseProduct.set_token_type
set_token_type(self, v) ==
    IF v # None /\ Raised(EnumGetItem(TokenType, Get(v)))
    THEN Effect(self, Raise(InvalidEnumValue("product token type", Get(v))))
    ELSE Effect([self EXCEPT !.token_type = v], Return(None))

\* BaseProduct(type=t, subtype=s, token_type=k): the generated __init__ assigns
\* the fields in declaration order through the property setters
BaseProduct__init__(t, s, k) ==
    LET e1 == set_type(DefaultProduct, t)
        e2 == set_subtype(e1.self, s)
        e3 == set_token_type(e2.self, k)
    IN  IF Raised(e1.res) THEN e1
        ELSE IF Raised(e2.res) THEN e2
        ELSE e3

-----------------------------------------------------------------------------
(* Inputs of the enum-validated fields *)

TypeInputs ==
    { None, Some("GLAZING"), Some("SHADING"), Some("MATERIAL"),
      Some("glazing"), Some("INVALID") }

SubtypeInputs ==
    { None, Some("MONOLITHIC"), Some("LAMINATE"), Some("COATED"),
      Some("Coated glass"), Some("INVALID") }

TokenTypeInputs ==
    { None, Some("PUBLISHED"), Some("PROPOSED"),
      Some("published"), Some("INVALID") }

\* the arguments tried at construction
InitTypeInputs == { None, Some("GLAZING"), Some("glazing"), Some("INVALID_TYPE") }

InitSubtypeInputs == { None, Some("MONOLITHIC"), Some("Monolithic"), Some("INVALID_TYPE") }

InitTokenTypeInputs == { None, Some("PUBLISHED"), Some("published"), Some("INVALID_TYPE") }

Init ==
    /\ product = DefaultProduct
    /\ geometry = DefaultGeometry
    /\ values = DefaultSummaryValues
    /\ ret = NoOutcome

\* p = BaseProduct(type=t, subtype=s, token_type=k); a raising constructor
\* leaves the earlier object in place
Construct ==
    \E t \in InitTypeInputs, s \in InitSubtypeInputs, k \in InitTokenTypeInputs :
        LET e == BaseProduct__init__(t, s, k)
        IN  /\ product' = IF Raised(e.res) THEN product ELSE e.self
            /\ ret' = Outcome("__init__", <<t, s, k>>, e.res)
            /\ UNCHANGED <<geometry, values>>

\* p.type = v
AssignType ==
    \E v \in TypeInputs :
        LET e == set_type(product, v)
        IN  /\ product' = e.self
            /\ ret' = Outcome("set_type", <<v>>, e.res)
            /\ UNCHANGED <<geometry, values>>

\* p.subtype = v
AssignSubtype ==
    \E v \in SubtypeInputs :
        LET e == set_subtype(product, v)
        IN  /\ product' = e.self
            /\ ret' = Outcome("set_subtype", <<v>>, e.res)
            /\ UNCHANGED <<geometry, values>>

\* p.token_type = v
AssignTokenType ==
    \E v \in TokenTypeInputs :
        LET e == set_token_type(product, v)
        IN  /\ product' = e.self
            /\ ret' = Outcome("set_token_type", <<v>>, e.res)
            /\ UNCHANGED <<geometry, values>>

NextEnum == Construct \/ AssignType \/ AssignSubtype \/ AssignTokenType

SpecEnum == Init /\ [][NextEnum]_vars

-----------------------------------------------------------------------------
(* Thermal accessors of BaseProduct *)

MaxSummaries == 2

\* ThermalIRResults(...); the numbers stand for hundredths
ThermalIRResults(tf, tb, ef, eb) ==
    [ transmittance_front_diffuse_diffuse |-> tf,
      transmittance_back_diffuse_diffuse  |-> tb,
      emissivity_front_hemispheric        |-> ef,
      emissivity_back_hemispheric         |-> eb ]

\* ThermalIRResults.transmittance_front
transmittance_front(self) ==
    IF TruthyNumber(self.transmittance_front_diffuse_diffuse)
    THEN self.transmittance_front_diffuse_diffuse
    ELSE None

\* ThermalIRResults.transmittance_back
transmittance_back(self) ==
    IF TruthyNumber(self.transmittance_back_diffuse_diffuse)
    THEN self.transmittance_back_diffuse_diffuse
    ELSE None

\* the attribute of a ThermalIRResults that an accessor reads
ThermalAttribute(thermal_ir, attribute) ==
    CASE attribute = "transmittance_front" -> transmittance_front(thermal_ir)
      [] attribute = "transmittance_back" -> transmittance_back(thermal_ir)
      [] attribute = "emissivity_front_hemispheric" ->
            thermal_ir.emissivity_front_hemispheric
      [] attribute = "emissivity_back_hemispheric" ->
            thermal_ir.emissivity_back_hemispheric

\* IntegratedSpectralAveragesSummaryValues(thermal_ir=thermal_ir)
IntegratedSpectralAveragesSummaryValues(thermal_ir) ==
    [DefaultSummaryValues EXCEPT !.thermal_ir = thermal_ir]

IntegratedSpectralAveragesSummary(summary_values, calculation_standard) ==
    [ summary_values |-> summary_values,
      calculation_standard |-> calculation_standard ]

\* summary.summary_values.thermal_ir.<attribute>: AttributeError on a None link
SummaryThermalAttribute(summary, attribute) ==
    IF summary.summary_values = None THEN Raise("AttributeError")
    ELSE IF Get(summary.summary_values).thermal_ir = None THEN Raise("AttributeError")
    ELSE Return(ThermalAttribute(Get(Get(summary.summary_values).thermal_ir), attribute))

\* variant: the read without the try / except
TryValueUncaught(summary, attribute) == SummaryThermalAttribute(summary, attribute)

\* try: value = ...  except Exception: pass
TryValue(summary, attribute) ==
    IF Raised(SummaryThermalAttribute(summary, attribute))
    THEN Return(None)
    ELSE SummaryThermalAttribute(summary, attribute)

\* variant: the loop over the summaries without the comparison of the
\* calculation standard
RECURSIVE CalculatedValue_any_standard(_, _, _)
CalculatedValue_any_standard(summaries, calculation_standard_name, attribute) ==
    IF summaries = << >> THEN Return(None)
    ELSE IF Raised(TryValue(Head(summaries), attribute))
            \/ TryValue(Head(summaries), attribute).value # None
    THEN TryValue(Head(summaries), attribute)
    ELSE CalculatedValue_any_standard(Tail(summaries), calculation_standard_name,
                                      attribute)

\* for summary in summaries: the first value that is not None is returned
RECURSIVE CalculatedValue(_, _, _)
CalculatedValue(summaries, calculation_standard_name, attribute) ==
    IF summaries = << >> THEN Return(None)
    ELSE LET summary == Head(summaries)
             r == IF summary.calculation_standard = Some(calculation_standard_name)
                  THEN TryValue(summary, attribute)
                  ELSE Return(None)
         IN  IF Raised(r) \/ r.value # None
             THEN r
             ELSE CalculatedValue(Tail(summaries), calculation_standard_name, attribute)

\* the body shared by the four accessors
ThermalValue(self, calculation_standard_name, attribute, predefined) ==
    LET calculated ==
            IF self.integrated_spectral_averages_summaries # << >>
            THEN CalculatedValue(self.integrated_spectral_averages_summaries,
                                 calculation_standard_name, attribute)
            ELSE Return(None)
    IN  IF Raised(calculated) \/ calculated.value # None
        THEN calculated
        ELSE IF TruthyObject(self.physical_properties)
        THEN Return(Get(self.physical_properties)[predefined])
        ELSE Return(None)

get_tir_front(self, calculation_standard_name) ==
    ThermalValue(self, calculation_standard_name,
                 "transmittance_front", "predefined_tir_front")

\* variant: get_tir_back falling back to the emissivity field
get_tir_back_other_field(self, calculation_standard_name) ==
    ThermalValue(self, calculation_standard_name,
                 "transmittance_back", "predefined_emissivity_back")

get_tir_back(self, calculation_standard_name) ==
    ThermalValue(self, calculation_standard_name,
                 "transmittance_back", "predefined_tir_back")

get_emissivity_front(self, calculation_standard_name) ==
    ThermalValue(self, calculation_standard_name,
                 "emissivity_front_hemispheric", "predefined_emissivity_front")

get_emissivity_back(self, calculation_standard_name) ==
    ThermalValue(self, calculation_standard_name,
                 "emissivity_back_hemispheric", "predefined_emissivity_back")

\* calculation_standard_name: str = "NFRC"
DefaultStandardName == "NFRC"

StandardName(args) == IF args = << >> THEN DefaultStandardName ELSE args[1]

(* Inputs of the thermal accessors *)

ThermalIRInputs ==
    { ThermalIRResults(None, None, None, None),
      ThermalIRResults(Some(10), Some(20), Some(30), Some(40)),
      ThermalIRResults(Some(12), None, Some(32), None),
      ThermalIRResults(Some(0), Some(0), Some(0), Some(0)) }

SummaryValuesInputs ==
    { None, Some(IntegratedSpectralAveragesSummaryValues(None)) }
    \cup { Some(IntegratedSpectralAveragesSummaryValues(Some(t))) : t \in ThermalIRInputs }

SummaryInputs ==
    { IntegratedSpectralAveragesSummary(v, Some(n)) :
        v \in SummaryValuesInputs, n \in {"NFRC", "CES"} }

PhysicalPropertiesInputs ==
    { None,
      Some(PhysicalProperties(None, None, None, None, None)),
      Some(PhysicalProperties(None, Some(60), Some(70), Some(80), Some(90))),
      Some(PhysicalProperties(None, Some(0), Some(5), None, Some(0))) }

StandardArguments == { << >>, <<"NFRC">>, <<"CES">> }

Mutated == Outcome("mutate", << >>, Return(None))

\* p.integrated_spectral_averages_summaries.append(summary)
AppendSummary ==
    \E summary \in SummaryInputs :
        /\ Len(product.integrated_spectral_averages_summaries) < MaxSummaries
        /\ product' = [product EXCEPT !.integrated_spectral_averages_summaries =
                                          Append(@, summary)]
        /\ ret' = Mutated
        /\ UNCHANGED <<geometry, values>>

\* p.integrated_spectral_averages_summaries = []
ClearSummaries ==
    /\ product.integrated_spectral_averages_summaries # << >>
    /\ product' = [product EXCEPT !.integrated_spectral_averages_summaries = << >>]
    /\ ret' = Mutated
    /\ UNCHANGED <<geometry, values>>

\* p.physical_properties = pp
AssignPhysicalProperties ==
    \E pp \in PhysicalPropertiesInputs :
        /\ product' = [product EXCEPT !.physical_properties = pp]
        /\ ret' = Mutated
        /\ UNCHANGED <<geometry, values>>

GetTirFront ==
    \E args \in StandardArguments :
        /\ ret' = Outcome("get_tir_front", args, get_tir_front(product, StandardName(args)))
        /\ UNCHANGED <<product, geometry, values>>

GetTirBack ==
    \E args \in StandardArguments :
        /\ ret' = Outcome("get_tir_back", args, get_tir_back(product, StandardName(args)))
        /\ UNCHANGED <<product, geometry, values>>

GetEmissivityFront ==
    \E args \in StandardArguments :
        /\ ret' = Outcome("get_emissivity_front", args,
                          get_emissivity_front(product, StandardName(args)))
        /\ UNCHANGED <<product, geometry, values>>

GetEmissivityBack ==
    \E args \in StandardArguments :
        /\ ret' = Outcome("get_emissivity_back", args,
                          get_emissivity_back(product, StandardName(args)))
        /\ UNCHANGED <<product, geometry, values>>

NextThermal ==
    \/ AppendSummary
    \/ ClearSummaries
    \/ AssignPhysicalProperties
    \/ GetTirFront
    \/ GetTirBack
    \/ GetEmissivityFront
    \/ GetEmissivityBack

SpecThermal == Init /\ [][NextThermal]_vars

-----------------------------------------------------------------------------
(* Thermal-IR wavelengths *)

MaxAngleBlocks == 2

MaxWavelengths == 2

\* the wavelength above which data is thermal IR
ThermalIRWavelength == 2500

\* A wavelength entry {"w": "2500.1", ...} holds its wavelength as decimal text;
\* <<2500, 1>> stands for the text "2500.1".  float() is modelled in tenths.
TenthsPerUnit == 10

WavelengthEntry(whole, tenths) == [w |-> <<whole, tenths>>]

float(text) == text[1] * TenthsPerUnit + text[2]

AngleBlock(wavelength_data) == [wavelength_data |-> wavelength_data]

OpticalData(angle_blocks) == [angle_blocks |-> angle_blocks]

\* OpticalProperties.has_thermal_ir_wavelengths: True at the first entry above
\* the threshold; the loops ending without one reach the end of the function,
\* which returns None
OpticalProperties_has_thermal_ir_wavelengths(self) ==
    IF ~TruthyObject(self.optical_data) THEN Return(Some(FALSE))
    ELSE IF \E b \in DOMAIN Get(self.optical_data).angle_blocks :
              \E i \in DOMAIN Get(self.optical_data).angle_blocks[b].wavelength_data :
                  float(Get(self.optical_data).angle_blocks[b].wavelength_data[i].w)
                      > ThermalIRWavelength * TenthsPerUnit
    THEN Return(Some(TRUE))
    ELSE Return(None)

\* BaseProduct.has_thermal_ir_wavelengths
has_thermal_ir_wavelengths(self) ==
    IF ~TruthyObject(self.physical_properties) THEN Return(Some(FALSE))
    ELSE IF ~TruthyObject(Get(self.physical_properties).optical_properties)
    THEN Return(Some(FALSE))
    ELSE OpticalProperties_has_thermal_ir_wavelengths(
             Get(Get(self.physical_properties).optical_properties))

(* Inputs of the wavelength data *)

WavelengthInputs ==
    { WavelengthEntry(0, 3), WavelengthEntry(2500, 0), WavelengthEntry(2500, 1) }

HasOpticalProperties(p) ==
    /\ p.physical_properties # None
    /\ Get(p.physical_properties).optical_properties # None

HasOpticalData(p) ==
    /\ HasOpticalProperties(p)
    /\ Get(Get(p.physical_properties).optical_properties).optical_data # None

angle_blocks(p) ==
    Get(Get(Get(p.physical_properties).optical_properties).optical_data).angle_blocks

\* p.physical_properties = PhysicalProperties(), or = None
AssignDefaultPhysicalProperties ==
    \E pp \in { None, Some(PhysicalProperties(None, None, None, None, None)) } :
        /\ product' = [product EXCEPT !.physical_properties = pp]
        /\ ret' = Mutated
        /\ UNCHANGED <<geometry, values>>

\* p.physical_properties.optical_properties = OpticalProperties(), or = None
AssignOpticalProperties ==
    \E op \in { None, Some(OpticalProperties(None)) } :
        /\ product.physical_properties # None
        /\ product' = [product EXCEPT !.physical_properties[1].optical_properties = op]
        /\ ret' = Mutated
        /\ UNCHANGED <<geometry, values>>

\* op.optical_data = OpticalData(), or = None
AssignOpticalData ==
    \E od \in { None, Some(OpticalData(<< >>)) } :
        /\ HasOpticalProperties(product)
        /\ product' = [product EXCEPT
               !.physical_properties[1].optical_properties[1].optical_data = od]
        /\ ret' = Mutated
        /\ UNCHANGED <<geometry, values>>

\* od.angle_blocks.append(AngleBlock())
AppendAngleBlock ==
    /\ HasOpticalData(product)
    /\ Len(angle_blocks(product)) < MaxAngleBlocks
    /\ product' = [product EXCEPT
           !.physical_properties[1].optical_properties[1].optical_data[1].angle_blocks =
               Append(@, AngleBlock(<< >>))]
    /\ ret' = Mutated
    /\ UNCHANGED <<geometry, values>>

\* angle_block.wavelength_data.append(entry)
AppendWavelength ==
    /\ HasOpticalData(product)
    /\ \E b \in DOMAIN angle_blocks(product), entry \in WavelengthInputs :
          /\ Len(angle_blocks(product)[b].wavelength_data) < MaxWavelengths
          /\ product' = [product EXCEPT
                 !.physical_properties[1].optical_properties[1].optical_data[1]
                      .angle_blocks[b].wavelength_data = Append(@, entry)]
    /\ ret' = Mutated
    /\ UNCHANGED <<geometry, values>>

\* angle_block.wavelength_data.pop()
PopWavelength ==
    /\ HasOpticalData(product)
    /\ \E b \in DOMAIN angle_blocks(product) :
          /\ angle_blocks(product)[b].wavelength_data # << >>
          /\ product' = [product EXCEPT
                 !.physical_properties[1].optical_properties[1].optical_data[1]
                      .angle_blocks[b].wavelength_data = SubSeq(@, 1, Len(@) - 1)]
    /\ ret' = Mutated
    /\ UNCHANGED <<geometry, values>>

\* p.has_thermal_ir_wavelengths
ReadHasThermalIRWavelengths ==
    /\ ret' = Outcome("has_thermal_ir_wavelengths", << >>,
                      has_thermal_ir_wavelengths(product))
    /\ UNCHANGED <<product, geometry, values>>

NextWave ==
    \/ AssignDefaultPhysicalProperties
    \/ AssignOpticalProperties
    \/ AssignOpticalData
    \/ AppendAngleBlock
    \/ AppendWavelength
    \/ PopWavelength
    \/ ReadHasThermalIRWavelengths

SpecWave == Init /\ [][NextWave]_vars

-----------------------------------------------------------------------------
(* Composition-derived predicates *)

MaxLayers == 2

CompositionDetails(coated_side_faces_exterior) ==
    [coated_side_faces_exterior |-> coated_side_faces_exterior]

ProductComposition(subtype, composition_details) ==
    [subtype |-> subtype, composition_details |-> composition_details]

\* for composition_layer in self.composition: the flag of the first COATED
\* layer with details and a true flag is returned
RECURSIVE CoatedLayerFacingExterior(_)
CoatedLayerFacingExterior(composition) ==
    IF composition = << >> THEN None
    ELSE LET composition_layer == Head(composition)
             composition_details == composition_layer.composition_details
         IN  IF /\ composition_layer.subtype = Some("COATED")
                /\ TruthyObject(composition_details)
                /\ TruthyFlag(Get(composition_details).coated_side_faces_exterior)
             THEN Get(composition_details).coated_side_faces_exterior
             ELSE CoatedLayerFacingExterior(Tail(composition))

\* variant: a scan that ends at the first COATED layer, whatever its flag
FirstCoatedLayerFacingExterior(composition) ==
    IF \E i \in DOMAIN composition : composition[i].subtype = Some("COATED")
    THEN LET i == CHOOSE k \in DOMAIN composition :
                     /\ composition[k].subtype = Some("COATED")
                     /\ \A j \in 1..(k - 1) : composition[j].subtype # Some("COATED")
             composition_details == composition[i].composition_details
         IN  IF /\ TruthyObject(composition_details)
                /\ TruthyFlag(Get(composition_details).coated_side_faces_exterior)
             THEN Get(composition_details).coated_side_faces_exterior
             ELSE None
    ELSE None

\* variant: has_coating_on_surface deciding on the first COATED layer
has_coating_on_surface_first_coated(self) ==
    IF self.subtype # Some("LAMINATE") THEN Return(Some(FALSE))
    ELSE IF FirstCoatedLayerFacingExterior(self.composition) # None
    THEN Return(FirstCoatedLayerFacingExterior(self.composition))
    ELSE Return(Some(FALSE))

\* BaseProduct.has_coating_on_surface
has_coating_on_surface(self) ==
    IF self.subtype # Some("LAMINATE") THEN Return(Some(FALSE))
    ELSE IF self.composition # << >> /\ CoatedLayerFacingExterior(self.composition) # None
    THEN Return(CoatedLayerFacingExterior(self.composition))
    ELSE Return(Some(FALSE))

\* variant: can_have_predefined_thermal_values without the coating test
can_have_predefined_thermal_values_any_laminate(self) ==
    IF self.subtype \notin {Some("MONOLITHIC"), Some("LAMINATE")}
    THEN Return(Some(FALSE))
    ELSE Return(Some(TRUE))

\* BaseProduct.can_have_predefined_thermal_values
can_have_predefined_thermal_values(self) ==
    IF self.subtype \notin {Some("MONOLITHIC"), Some("LAMINATE")}
    THEN Return(Some(FALSE))
    ELSE IF /\ self.subtype = Some("LAMINATE")
            /\ TruthyFlag(has_coating_on_surface(self).value)
    THEN Return(Some(FALSE))
    ELSE Return(Some(TRUE))

(* Inputs of the composition *)

LayerInputs ==
    { ProductComposition(subtype, details) :
        subtype \in { None, Some("COATED"), Some("MONOLITHIC") },
        details \in { None, Some(CompositionDetails(None)),
                      Some(CompositionDetails(Some(TRUE))),
                      Some(CompositionDetails(Some(FALSE))) } }

\* p.composition.append(layer)
AppendLayer ==
    \E layer \in LayerInputs :
        /\ Len(product.composition) < MaxLayers
        /\ product' = [product EXCEPT !.composition = Append(@, layer)]
        /\ ret' = Mutated
        /\ UNCHANGED <<geometry, values>>

\* p.composition = []
ClearComposition ==
    /\ product.composition # << >>
    /\ product' = [product EXCEPT !.composition = << >>]
    /\ ret' = Mutated
    /\ UNCHANGED <<geometry, values>>

\* p.has_coating_on_surface
ReadHasCoatingOnSurface ==
    /\ ret' = Outcome("has_coating_on_surface", << >>, has_coating_on_surface(product))
    /\ UNCHANGED <<product, geometry, values>>

\* p.can_have_predefined_thermal_values
ReadCanHavePredefinedThermalValues ==
    /\ ret' = Outcome("can_have_predefined_thermal_values", << >>,
                      can_have_predefined_thermal_values(product))
    /\ UNCHANGED <<product, geometry, values>>

NextComposition ==
    \/ AssignSubtype
    \/ AppendLayer
    \/ ClearComposition
    \/ ReadHasCoatingOnSurface
    \/ ReadCanHavePredefinedThermalValues

SpecComposition == Init /\ [][NextComposition]_vars

-----------------------------------------------------------------------------
(* Decimal arithmetic *)

\* A Decimal is modelled in fixed point: the integer n stands for
\* n / 10^DecimalPlaces, and an inexact quotient or square root is rounded
\* half-even to that resolution (the decimal context rounds half-even to its
\* precision).
DecimalPlaces == 3

RECURSIVE Power10(_)
Power10(n) == IF n = 0 THEN 1 ELSE 10 * Power10(n - 1)

DecimalScale == Power10(DecimalPlaces)

\* Decimal(n) of an integer n
Decimal(n) == n * DecimalScale

\* n / d for d > 0, rounded half-even to an integer
RoundHalfEven(n, d) ==
    LET q == n \div d
        r == n % d
    IN  IF 2 * r < d THEN q
        ELSE IF 2 * r > d THEN q + 1
        ELSE IF q % 2 = 0 THEN q ELSE q + 1

DecimalMul(a, b) == RoundHalfEven(a * b, DecimalScale)

\* variant: a quotient truncated instead of rounded half-even
DecimalDivTruncated(a, b) == (a * DecimalScale) \div b

\* Decimal / Decimal
DecimalDiv(a, b) ==
    IF b > 0 THEN RoundHalfEven(a * DecimalScale, b)
    ELSE RoundHalfEven((0 - a) * DecimalScale, 0 - b)

\* the largest k in lo..hi with k * k <= n
RECURSIVE FloorSqrtIn(_, _, _)
FloorSqrtIn(n, lo, hi) ==
    IF lo >= hi THEN lo
    ELSE LET mid == (lo + hi + 1) \div 2
         IN  IF mid * mid <= n
             THEN FloorSqrtIn(n, mid, hi)
             ELSE FloorSqrtIn(n, lo, mid - 1)

\* variant: the square root truncated instead of rounded to nearest
DecimalSqrtTruncated(a) == FloorSqrtIn(a * DecimalScale, 0, 46340)

\* Decimal.sqrt() for a >= 0: the nearest representable value
DecimalSqrt(a) ==
    LET n == a * DecimalScale
        k == FloorSqrtIn(n, 0, 46340)
    IN  IF n - k * k > k THEN k + 1 ELSE k

-----------------------------------------------------------------------------
(* BlindGeometry *)

\* the largest magnitude of a field for which the conversions are explored
MaxMagnitude == 40

ValueError(what, message) == [type |-> "ValueError", what |-> what, message |-> message]

MissingValue(what) == ValueError(what, "must be defined")

InvalidGeometry == ValueError("rise", "must be <= slat_width/2")

\* variant: set_rise_from_curvature requiring slat_width before the
\* curvature <= 0 branch
set_rise_from_curvature_width_first(self) ==
    IF self.slat_curvature = None
    THEN Effect(self, Raise(MissingValue("slat_curvature")))
    ELSE IF self.slat_width = None
    THEN Effect(self, Raise(MissingValue("slat_width")))
    ELSE IF Get(self.slat_curvature) <= Decimal(0)
    THEN Effect([self EXCEPT !.rise_ = Some(Decimal(0))], Return(Some(Decimal(0))))
    ELSE LET curvature == Get(self.slat_curvature)
             slat_width == Get(self.slat_width)
             val == DecimalMul(curvature, curvature)
                    - DecimalDiv(DecimalMul(slat_width, slat_width), Decimal(4))
             rise == IF val < Decimal(0)
                     THEN DecimalDiv(slat_width, Decimal(2))
                     ELSE curvature - DecimalSqrt(val)
         IN  Effect([self EXCEPT !.rise_ = Some(rise)], Return(Some(rise)))

\* variant: set_rise_from_curvature also clamping a negative curvature to 0
set_rise_from_curvature_clamping_curvature(self) ==
    IF self.slat_curvature = None
    THEN Effect(self, Raise(MissingValue("slat_curvature")))
    ELSE IF Get(self.slat_curvature) <= Decimal(0)
    THEN Effect([self EXCEPT !.rise_ = Some(Decimal(0)),
                             !.slat_curvature = Some(Decimal(0))],
                Return(Some(Decimal(0))))
    ELSE IF self.slat_width = None
    THEN Effect(self, Raise(MissingValue("slat_width")))
    ELSE LET curvature == Get(self.slat_curvature)
             slat_width == Get(self.slat_width)
             val == DecimalMul(curvature, curvature)
                    - DecimalDiv(DecimalMul(slat_width, slat_width), Decimal(4))
             rise == IF val < Decimal(0)
                     THEN DecimalDiv(slat_width, Decimal(2))
                     ELSE curvature - DecimalSqrt(val)
         IN  Effect([self EXCEPT !.rise_ = Some(rise)], Return(Some(rise)))

\* variant: set_rise_from_curvature clamping to slat_width instead of
\* slat_width/2
set_rise_from_curvature_clamping_to_width(self) ==
    IF self.slat_curvature = None
    THEN Effect(self, Raise(MissingValue("slat_curvature")))
    ELSE IF Get(self.slat_curvature) <= Decimal(0)
    THEN Effect([self EXCEPT !.rise_ = Some(Decimal(0))], Return(Some(Decimal(0))))
    ELSE IF self.slat_width = None
    THEN Effect(self, Raise(MissingValue("slat_width")))
    ELSE LET curvature == Get(self.slat_curvature)
             slat_width == Get(self.slat_width)
             val == DecimalMul(curvature, curvature)
                    - DecimalDiv(DecimalMul(slat_width, slat_width), Decimal(4))
             rise == IF val < Decimal(0)
                     THEN slat_width
                     ELSE curvature - DecimalSqrt(val)
         IN  Effect([self EXCEPT !.rise_ = Some(rise)], Return(Some(rise)))

\* BlindGeometry.set_rise_from_curvature
set_rise_from_curvature(self) ==
    IF self.slat_curvature = None
    THEN Effect(self, Raise(MissingValue("slat_curvature")))
    ELSE IF Get(self.slat_curvature) <= Decimal(0)
    THEN Effect([self EXCEPT !.rise_ = Some(Decimal(0))], Return(Some(Decimal(0))))
    ELSE IF self.slat_width = None
    THEN Effect(self, Raise(MissingValue("slat_width")))
    ELSE LET curvature == Get(self.slat_curvature)
             slat_width == Get(self.slat_width)
             val == DecimalMul(curvature, curvature)
                    - DecimalDiv(DecimalMul(slat_width, slat_width), Decimal(4))
             rise == IF val < Decimal(0)
                     THEN DecimalDiv(slat_width, Decimal(2))
                     ELSE curvature - DecimalSqrt(val)
         IN  Effect([self EXCEPT !.rise_ = Some(rise)], Return(Some(rise)))

\* variant: set_curvature_from_rise rejecting a rise of exactly slat_width/2
set_curvature_from_rise_below_half(self) ==
    IF self.rise_ = None
    THEN Effect(self, Raise(MissingValue("rise")))
    ELSE IF Get(self.rise_) <= Decimal(0)
    THEN Effect([self EXCEPT !.slat_curvature = Some(Decimal(0))],
                Return(Some(Decimal(0))))
    ELSE IF self.slat_width = None
    THEN Effect(self, Raise(MissingValue("slat_width")))
    ELSE LET rise == Get(self.rise_)
             slat_width == Get(self.slat_width)
             max_rise == DecimalDiv(slat_width, Decimal(2))
         IN  IF rise >= max_rise
             THEN Effect(self, Raise(InvalidGeometry))
             ELSE LET numerator == DecimalMul(rise, rise)
                                   + DecimalDiv(DecimalMul(slat_width, slat_width),
                                                Decimal(4))
                      denominator == DecimalMul(rise, Decimal(2))
                      val == DecimalDiv(numerator, denominator)
                  IN  Effect([self EXCEPT !.slat_curvature = Some(val)],
                             Return(Some(val)))

\* variant: set_curvature_from_rise clamping every value below slat_width
set_curvature_from_rise_clamp_below_width(self) ==
    IF self.rise_ = None
    THEN Effect(self, Raise(MissingValue("rise")))
    ELSE IF Get(self.rise_) <= Decimal(0)
    THEN Effect([self EXCEPT !.slat_curvature = Some(Decimal(0))],
                Return(Some(Decimal(0))))
    ELSE IF self.slat_width = None
    THEN Effect(self, Raise(MissingValue("slat_width")))
    ELSE LET rise == Get(self.rise_)
             slat_width == Get(self.slat_width)
             max_rise == DecimalDiv(slat_width, Decimal(2))
         IN  IF rise > max_rise
             THEN Effect(self, Raise(InvalidGeometry))
             ELSE LET numerator == DecimalMul(rise, rise)
                                   + DecimalDiv(DecimalMul(slat_width, slat_width),
                                                Decimal(4))
                      denominator == DecimalMul(rise, Decimal(2))
                      val == DecimalDiv(numerator, denominator)
                      curvature == IF val < slat_width
                                   THEN DecimalDiv(slat_width, Decimal(2))
                                   ELSE val
                  IN  Effect([self EXCEPT !.slat_curvature = Some(curvature)],
                             Return(Some(curvature)))

\* BlindGeometry.set_curvature_from_rise
set_curvature_from_rise(self) ==
    IF self.rise_ = None
    THEN Effect(self, Raise(MissingValue("rise")))
    ELSE IF Get(self.rise_) <= Decimal(0)
    THEN Effect([self EXCEPT !.slat_curvature = Some(Decimal(0))],
                Return(Some(Decimal(0))))
    ELSE IF self.slat_width = None
    THEN Effect(self, Raise(MissingValue("slat_width")))
    ELSE LET rise == Get(self.rise_)
             slat_width == Get(self.slat_width)
             max_rise == DecimalDiv(slat_width, Decimal(2))
         IN  IF rise > max_rise
             THEN Effect(self, Raise(InvalidGeometry))
             ELSE LET numerator == DecimalMul(rise, rise)
                                   + DecimalDiv(DecimalMul(slat_width, slat_width),
                                                Decimal(4))
                      denominator == DecimalMul(rise, Decimal(2))
                      val == DecimalDiv(numerator, denominator)
                      curvature == IF val < Decimal(0)
                                   THEN DecimalDiv(slat_width, Decimal(2))
                                   ELSE val
                  IN  Effect([self EXCEPT !.slat_curvature = Some(curvature)],
                             Return(Some(curvature)))

\* variant: a getter that derives the rise whenever a curvature is set, even
\* over a stored rise
rise_always_deriving(self) ==
    IF TruthyNumber(self.slat_curvature)
    THEN IF Raised(set_rise_from_curvature(self).res)
         THEN set_rise_from_curvature(self)
         ELSE Effect(set_rise_from_curvature(self).self,
                     Return(set_rise_from_curvature(self).self.rise_))
    ELSE Effect(self, Return(self.rise_))

\* BlindGeometry.rise (the property getter)
rise(self) ==
    IF ~TruthyNumber(self.rise_) /\ TruthyNumber(self.slat_curvature)
    THEN IF Raised(set_rise_from_curvature(self).res)
         THEN set_rise_from_curvature(self)
         ELSE Effect(set_rise_from_curvature(self).self,
                     Return(set_rise_from_curvature(self).self.rise_))
    ELSE Effect(self, Return(self.rise_))

(* Inputs of the geometry; all in thousandths *)

SlatWidthInputs == { None, Some(0), Some(10000), Some(16000) }

SlatCurvatureInputs ==
    { None, Some(-10000), Some(0), Some(23), Some(1000), Some(5000), Some(6000),
      Some(13000) }

RiseInputs ==
    { None, Some(-10000), Some(0), Some(2500), Some(3000), Some(5000),
      Some(7000), Some(9000) }

WithinMagnitude(o) ==
    IF o = None THEN TRUE
    ELSE Get(o) <= Decimal(MaxMagnitude) /\ Get(o) >= Decimal(0 - MaxMagnitude)

Explored(g) ==
    /\ WithinMagnitude(g.rise_)
    /\ WithinMagnitude(g.slat_width)
    /\ WithinMagnitude(g.slat_curvature)

\* t.slat_width = w
AssignSlatWidth ==
    \E w \in SlatWidthInputs :
        /\ geometry' = [geometry EXCEPT !.slat_width = w]
        /\ ret' = Mutated
        /\ UNCHANGED <<product, values>>

\* t.slat_curvature = c
AssignSlatCurvature ==
    \E c \in SlatCurvatureInputs :
        /\ geometry' = [geometry EXCEPT !.slat_curvature = c]
        /\ ret' = Mutated
        /\ UNCHANGED <<product, values>>

\* t._rise = r
AssignRise ==
    \E r \in RiseInputs :
        /\ geometry' = [geometry EXCEPT !.rise_ = r]
        /\ ret' = Mutated
        /\ UNCHANGED <<product, values>>

\* t.set_rise_from_curvature()
CallSetRiseFromCurvature ==
    /\ Explored(geometry)
    /\ geometry' = set_rise_from_curvature(geometry).self
    /\ ret' = Outcome("set_rise_from_curvature", << >>,
                      set_rise_from_curvature(geometry).res)
    /\ UNCHANGED <<product, values>>

\* t.set_curvature_from_rise()
CallSetCurvatureFromRise ==
    /\ Explored(geometry)
    /\ geometry' = set_curvature_from_rise(geometry).self
    /\ ret' = Outcome("set_curvature_from_rise", << >>,
                      set_curvature_from_rise(geometry).res)
    /\ UNCHANGED <<product, values>>

\* t.rise
ReadRise ==
    /\ Explored(geometry)
    /\ geometry' = rise(geometry).self
    /\ ret' = Outcome("rise", << >>, rise(geometry).res)
    /\ UNCHANGED <<product, values>>

NextGeometry ==
    \/ AssignSlatWidth
    \/ AssignSlatCurvature
    \/ AssignRise
    \/ CallSetRiseFromCurvature
    \/ CallSetCurvatureFromRise
    \/ ReadRise

SpecGeometry == Init /\ [][NextGeometry]_vars

-----------------------------------------------------------------------------
(* Integrated spectral averages: records and factories *)

OpticalStandardMethodFluxResults(direct_direct, direct_diffuse, direct_hemispherical, diffuse_diffuse) ==
    [ direct_direct |-> direct_direct,
      direct_diffuse |-> direct_diffuse,
      direct_hemispherical |-> direct_hemispherical,
      diffuse_diffuse |-> diffuse_diffuse,
      matrix |-> None ]

OpticalStandardMethodResults(transmittance_front_, transmittance_back_, reflectance_front, reflectance_back) ==
    [ transmittance_front |-> transmittance_front_,
      transmittance_back |-> transmittance_back_,
      reflectance_front |-> reflectance_front,
      reflectance_back |-> reflectance_back,
      absorptance_front_direct |-> None,
      absorptance_back_direct |-> None,
      absorptance_front_hemispheric |-> None,
      absorptance_back_hemispheric |-> None,
      error |-> None ]

TrichromaticResult(x, y, z) == [x |-> x, y |-> y, z |-> z]

LabResult(l, a, b) == [l |-> l, a |-> a, b |-> b]

RGBResult(r, g, b) == [r |-> r, g |-> g, b |-> b]

OpticalColorResult(trichromatic, lab, rgb) ==
    [trichromatic |-> trichromatic, lab |-> lab, rgb |-> rgb]

OpticalColorFluxResults(direct_direct, direct_diffuse, direct_hemispherical, diffuse_diffuse) ==
    [ direct_direct |-> direct_direct,
      direct_diffuse |-> direct_diffuse,
      direct_hemispherical |-> direct_hemispherical,
      diffuse_diffuse |-> diffuse_diffuse ]

OpticalColorResults(transmittance_front_, transmittance_back_, reflectance_front, reflectance_back) ==
    [ transmittance_front |-> transmittance_front_,
      transmittance_back |-> transmittance_back_,
      reflectance_front |-> reflectance_front,
      reflectance_back |-> reflectance_back ]

\* OpticalStandardMethodFluxResults()
DefaultFluxResults == OpticalStandardMethodFluxResults(None, None, None, None)

\* OpticalStandardMethodResults()
DefaultStandardMethodResults == OpticalStandardMethodResults(None, None, None, None)

\* OpticalColorResult()
DefaultColorResult == OpticalColorResult(None, None, None)

\* OpticalColorFluxResults()
DefaultColorFluxResults == OpticalColorFluxResults(None, None, None, None)

\* OpticalColorResults()
DefaultColorResults == OpticalColorResults(None, None, None, None)

\* variant: OpticalStandardMethodResultsFactory.create leaving
\* reflectance_back unset
OpticalStandardMethodResultsFactory_create_partial ==
    OpticalStandardMethodResults(Some(DefaultFluxResults), Some(DefaultFluxResults),
                                 Some(DefaultFluxResults), None)

\* OpticalStandardMethodResultsFactory.create
OpticalStandardMethodResultsFactory_create ==
    OpticalStandardMethodResults(Some(DefaultFluxResults), Some(DefaultFluxResults),
                                 Some(DefaultFluxResults), Some(DefaultFluxResults))

\* OpticalColorResultFactory.create
OpticalColorResultFactory_create ==
    OpticalColorResult(Some(TrichromaticResult(None, None, None)),
                       Some(LabResult(None, None, None)),
                       Some(RGBResult(None, None, None)))

\* OpticalColorFluxResultsFactory.create
OpticalColorFluxResultsFactory_create ==
    OpticalColorFluxResults(Some(OpticalColorResultFactory_create),
                            Some(OpticalColorResultFactory_create),
                            Some(OpticalColorResultFactory_create),
                            Some(OpticalColorResultFactory_create))

\* OpticalColorResultsFactory.create
OpticalColorResultsFactory_create ==
    OpticalColorResults(Some(OpticalColorFluxResultsFactory_create),
                        Some(OpticalColorFluxResultsFactory_create),
                        Some(OpticalColorFluxResultsFactory_create),
                        Some(OpticalColorFluxResultsFactory_create))

\* IntegratedSpectralAveragesSummaryValuesFactory.create
IntegratedSpectralAveragesSummaryValuesFactory_create ==
    [ solar |-> Some(OpticalStandardMethodResultsFactory_create),
      photopic |-> Some(OpticalStandardMethodResultsFactory_create),
      thermal_ir |-> Some(ThermalIRResults(None, None, None, None)),
      tuv |-> Some(OpticalStandardMethodResultsFactory_create),
      spf |-> Some(OpticalStandardMethodResultsFactory_create),
      tdw |-> Some(OpticalStandardMethodResultsFactory_create),
      tkr |-> Some(OpticalStandardMethodResultsFactory_create),
      color |-> Some(OpticalColorResultsFactory_create) ]

-----------------------------------------------------------------------------
(* Integrated spectral averages: convenience getters *)

\* obj.name, where obj may be None: a field of the record, one of the two
\* transmittance properties of a ThermalIRResults, AttributeError otherwise
getattr(obj, name) ==
    IF obj = None THEN Raise("AttributeError")
    ELSE IF name \in DOMAIN Get(obj) THEN Return(Get(obj)[name])
    ELSE IF "transmittance_front_diffuse_diffuse" \in DOMAIN Get(obj)
            /\ name = "transmittance_front"
    THEN Return(transmittance_front(Get(obj)))
    ELSE IF "transmittance_back_diffuse_diffuse" \in DOMAIN Get(obj)
            /\ name = "transmittance_back"
    THEN Return(transmittance_back(Get(obj)))
    ELSE Raise("AttributeError")

\* obj.a.b.c for the path <<a, b, c>>
RECURSIVE Attributes(_, _)
Attributes(obj, path) ==
    IF path = << >> THEN Return(obj)
    ELSE IF Raised(getattr(obj, Head(path)))
    THEN getattr(obj, Head(path))
    ELSE Attributes(getattr(obj, Head(path)).value, Tail(path))

\* the attribute chain that each convenience getter of
\* IntegratedSpectralAveragesSummaryValues returns
GetterPath ==
    [
      tf_sol |-> <<"solar", "transmittance_front", "direct_direct">>,
      tf_sol_dir_dif |-> <<"solar", "transmittance_front", "direct_diffuse">>,
      tf_sol_dir_hem |-> <<"solar", "transmittance_front", "direct_hemispherical">>,
      tb_sol |-> <<"solar", "transmittance_back", "direct_direct">>,
      tb_sol_dir_dif |-> <<"solar", "transmittance_back", "direct_diffuse">>,
      tb_sol_dir_hem |-> <<"solar", "transmittance_back", "direct_hemispherical">>,
      rf_sol |-> <<"solar", "reflectance_front", "direct_direct">>,
      rf_sol_dir_dif |-> <<"solar", "reflectance_front", "direct_diffuse">>,
      rf_sol_dir_hem |-> <<"solar", "reflectance_front", "direct_hemispherical">>,
      rb_sol |-> <<"solar", "reflectance_back", "direct_direct">>,
      rb_sol_dir_dif |-> <<"solar", "reflectance_back", "direct_diffuse">>,
      rb_sol_dir_hem |-> <<"solar", "reflectance_back", "direct_hemispherical">>,
      tf_vis |-> <<"photopic", "transmittance_front", "direct_direct">>,
      tb_vis |-> <<"photopic", "transmittance_back", "direct_direct">>,
      tb_vis_dir_dif |-> <<"photopic", "transmittance_back", "direct_diffuse">>,
      tb_vis_dir_hem |-> <<"photopic", "transmittance_back", "direct_hemispherical">>,
      rf_vis |-> <<"photopic", "reflectance_front", "direct_direct">>,
      rf_vis_dir_dif |-> <<"photopic", "reflectance_front", "direct_diffuse">>,
      rf_vis_dir_hem |-> <<"photopic", "reflectance_front", "direct_hemispherical">>,
      rb_vis |-> <<"photopic", "reflectance_back", "direct_direct">>,
      rb_vis_dir_dif |-> <<"photopic", "reflectance_back", "direct_diffuse">>,
      rb_vis_dir_hem |-> <<"photopic", "reflectance_back", "direct_hemispherical">>,
      tf_tuv |-> <<"tuv", "reflectance_back", "direct_direct">>,
      tf_spf |-> <<"spf", "reflectance_back", "direct_direct">>,
      tf_tdw |-> <<"tdw", "reflectance_back", "direct_direct">>,
      tf_tkr |-> <<"tkr", "reflectance_back", "direct_direct">>,
      tf_ciex |-> <<"color", "transmittance_front", "direct_direct", "trichromatic", "x">>,
      tf_ciey |-> <<"color", "transmittance_front", "direct_direct", "trichromatic", "y">>,
      tf_ciez |-> <<"color", "transmittance_front", "direct_direct", "trichromatic", "z">>,
      rf_ciex |-> <<"color", "reflectance_front", "direct_direct", "trichromatic", "x">>,
      rf_ciey |-> <<"color", "reflectance_front", "direct_direct", "trichromatic", "y">>,
      rf_ciez |-> <<"color", "reflectance_front", "direct_direct", "trichromatic", "z">>,
      rb_ciex |-> <<"color", "reflectance_back", "direct_direct", "trichromatic", "x">>,
      rb_ciey |-> <<"color", "reflectance_back", "direct_direct", "trichromatic", "y">>,
      rb_ciez |-> <<"color", "reflectance_back", "direct_direct", "trichromatic", "z">>,
      tf_r |-> <<"color", "transmittance_front", "direct_direct", "rgb", "r">>,
      tf_b |-> <<"color", "transmittance_front", "direct_direct", "rgb", "g">>,
      tf_g |-> <<"color", "transmittance_front", "direct_direct", "rgb", "b">>,
      rf_r |-> <<"color", "reflectance_front", "direct_direct", "rgb", "r">>,
      rf_b |-> <<"color", "reflectance_front", "direct_direct", "rgb", "g">>,
      rf_g |-> <<"color", "reflectance_front", "direct_direct", "rgb", "b">>,
      rb_r |-> <<"color", "reflectance_back", "direct_direct", "rgb", "r">>,
      rb_b |-> <<"color", "reflectance_back", "direct_direct", "rgb", "g">>,
      rb_g |-> <<"color", "reflectance_back", "direct_direct", "rgb", "b">>,
      tir_front |-> <<"thermal_ir", "transmittance_front">>,
      tir_back |-> <<"thermal_ir", "transmittance_back">>,
      emissivity_front |-> <<"thermal_ir", "emissivity_front_hemispheric">>,
      emissivity_back |-> <<"thermal_ir", "emissivity_back_hemispheric">> ]

GetterNames == DOMAIN GetterPath

\* variant: a convenience getter without the try / except
GetterUncaught(self, name) == Attributes(Some(self), GetterPath[name])

\* try: return self.<path>  except AttributeError: return None
Getter(self, name) ==
    IF Attributes(Some(self), GetterPath[name]).exc = Some("AttributeError")
    THEN Return(None)
    ELSE Attributes(Some(self), GetterPath[name])

(* Inputs of the integrated spectral averages *)

\* the largest number of non-null fields of the summary values for which
\* field assignments are explored
MaxPopulated == 1

\* leaf values are chosen distinct along every path
FieldBase ==
    [ solar |-> 100, photopic |-> 200, tuv |-> 300, spf |-> 400,
      tdw |-> 500, tkr |-> 600 ]

FluxValues(n) ==
    OpticalStandardMethodFluxResults(Some(n + 1), Some(n + 2), Some(n + 3), Some(n + 4))

StandardMethodValues(n) ==
    OpticalStandardMethodResults(Some(FluxValues(n + 10)), Some(FluxValues(n + 20)),
                                 Some(FluxValues(n + 30)), Some(FluxValues(n + 40)))

StandardMethodInputs(f) ==
    { None,
      Some(DefaultStandardMethodResults),
      Some(OpticalStandardMethodResultsFactory_create),
      Some(StandardMethodValues(FieldBase[f])) }

ColorValues(n) ==
    OpticalColorResult(Some(TrichromaticResult(Some(n + 1), Some(n + 2), Some(n + 3))),
                       Some(LabResult(Some(n + 4), Some(n + 5), Some(n + 6))),
                       Some(RGBResult(Some(n + 7), Some(n + 8), Some(n + 9))))

ColorFluxValues(n) ==
    OpticalColorFluxResults(Some(ColorValues(n + 10)), Some(ColorValues(n + 20)),
                            Some(ColorValues(n + 30)), Some(ColorValues(n + 40)))

ColorResultsValues ==
    OpticalColorResults(Some(ColorFluxValues(1000)), Some(ColorFluxValues(2000)),
                        Some(ColorFluxValues(3000)), Some(ColorFluxValues(4000)))

\* colour results whose links are missing at different depths
ColorResultsPartial ==
    OpticalColorResults(
        Some(DefaultColorFluxResults),
        None,
        Some(OpticalColorFluxResults(
                 Some(OpticalColorResult(None, None,
                          Some(RGBResult(Some(3017), Some(3018), Some(3019))))),
                 None, None, None)),
        Some(OpticalColorFluxResults(Some(DefaultColorResult), None, None, None)))

ColorInputs ==
    { None,
      Some(DefaultColorResults),
      Some(OpticalColorResultsFactory_create),
      Some(ColorResultsValues),
      Some(ColorResultsPartial) }

SummaryFieldNames == DOMAIN DefaultSummaryValues

SummaryFieldInputs(f) ==
    IF f = "color" THEN ColorInputs
    ELSE IF f = "thermal_ir" THEN { None } \cup { Some(t) : t \in ThermalIRInputs }
    ELSE StandardMethodInputs(f)

Populated(v) == Cardinality({ f \in DOMAIN v : v[f] # None })

\* v = IntegratedSpectralAveragesSummaryValues()
ConstructSummaryValues ==
    /\ values' = DefaultSummaryValues
    /\ ret' = Outcome("IntegratedSpectralAveragesSummaryValues", << >>,
                      Return(Some(DefaultSummaryValues)))
    /\ UNCHANGED <<product, geometry>>

\* v = IntegratedSpectralAveragesSummaryValuesFactory.create()
CreateSummaryValues ==
    /\ values' = IntegratedSpectralAveragesSummaryValuesFactory_create
    /\ ret' = Outcome("IntegratedSpectralAveragesSummaryValuesFactory.create", << >>,
                      Return(Some(IntegratedSpectralAveragesSummaryValuesFactory_create)))
    /\ UNCHANGED <<product, geometry>>

\* OpticalStandardMethodResults()
ConstructStandardMethodResults ==
    /\ ret' = Outcome("OpticalStandardMethodResults", << >>,
                      Return(Some(DefaultStandardMethodResults)))
    /\ UNCHANGED <<product, geometry, values>>

\* OpticalStandardMethodResultsFactory.create()
CreateStandardMethodResults ==
    /\ ret' = Outcome("OpticalStandardMethodResultsFactory.create", << >>,
                      Return(Some(OpticalStandardMethodResultsFactory_create)))
    /\ UNCHANGED <<product, geometry, values>>

\* OpticalColorResults()
ConstructColorResults ==
    /\ ret' = Outcome("OpticalColorResults", << >>, Return(Some(DefaultColorResults)))
    /\ UNCHANGED <<product, geometry, values>>

\* OpticalColorResultsFactory.create()
CreateColorResults ==
    /\ ret' = Outcome("OpticalColorResultsFactory.create", << >>,
                      Return(Some(OpticalColorResultsFactory_create)))
    /\ UNCHANGED <<product, geometry, values>>

\* v.<f> = x
AssignSummaryField ==
    \E f \in SummaryFieldNames :
        \E x \in SummaryFieldInputs(f) :
            /\ Populated([values EXCEPT ![f] = x]) <= MaxPopulated \/ x = None
            /\ values' = [values EXCEPT ![f] = x]
            /\ ret' = Mutated
            /\ UNCHANGED <<product, geometry>>

\* v.<name>, one of the convenience getters
ReadGetter ==
    \E name \in GetterNames :
        /\ ret' = Outcome(name, << >>, Getter(values, name))
        /\ UNCHANGED <<product, geometry, values>>

(* MeasurementType *)

\* a member name, as its pieces: every "_" of the name is a piece of its own
MeasurementTypeName(suffix) == <<"MEASUREMENT", "_", "TYPE", "_">> \o suffix

\* the members in declaration order
MeasurementType ==
    << [name |-> MeasurementTypeName(<<"TF">>), value |-> "tf"],
       [name |-> MeasurementTypeName(<<"TB">>), value |-> "tb"],
       [name |-> MeasurementTypeName(<<"RF">>), value |-> "rf"],
       [name |-> MeasurementTypeName(<<"RB">>), value |-> "rb"],
       [name |-> MeasurementTypeName(<<"TF", "_", "DIR", "_", "DIF">>), value |-> "tf_dir_dif"],
       [name |-> MeasurementTypeName(<<"TB", "_", "DIR", "_", "DIF">>), value |-> "tb_dir_dif"],
       [name |-> MeasurementTypeName(<<"RF", "_", "DIR", "_", "DIF">>), value |-> "rf_dir_dif"],
       [name |-> MeasurementTypeName(<<"RB", "_", "DIR", "_", "DIF">>), value |-> "rb_dir_dif"],
       [name |-> MeasurementTypeName(<<"TF", "_", "DIR", "_", "HEM">>), value |-> "tf_dir_hem"],
       [name |-> MeasurementTypeName(<<"TB", "_", "DIR", "_", "HEM">>), value |-> "tb_dir_hem"],
       [name |-> MeasurementTypeName(<<"RF", "_", "DIR", "_", "HEM">>), value |-> "rf_dir_hem"],
       [name |-> MeasurementTypeName(<<"RB", "_", "DIR", "_", "HEM">>), value |-> "rb_dir_hem"] >>

\* sub in s, for strings given by their pieces
Contains(s, sub) ==
    \E i \in 1..(Len(s) - Len(sub) + 1) : SubSeq(s, i, i + Len(sub) - 1) = sub

\* [item.value for item in items]
ItemValues(items) == [i \in DOMAIN items |-> items[i].value]

\* "_TB_" not in item.name
NoTB(item) == ~Contains(item.name, <<"_", "TB", "_">>)

\* MeasurementType.get_types
get_types(include_tb) ==
    IF include_tb
    THEN Return(Some(ItemValues(MeasurementType)))
    ELSE Return(Some(ItemValues(SelectSeq(MeasurementType, NoTB))))

\* include_tb: bool = True
DefaultIncludeTB == TRUE

IncludeTBArguments == { << >>, <<TRUE>>, <<FALSE>> }

\* MeasurementType.get_types(...)
GetTypes ==
    \E args \in IncludeTBArguments :
        /\ ret' = Outcome("get_types", args,
                          get_types(IF args = << >> THEN DefaultIncludeTB ELSE args[1]))
        /\ UNCHANGED <<product, geometry, values>>

NextSummaryValues ==
    \/ ConstructSummaryValues
    \/ CreateSummaryValues
    \/ ConstructStandardMethodResults
    \/ CreateStandardMethodResults
    \/ ConstructColorResults
    \/ CreateColorResults
    \/ AssignSummaryField
    \/ ReadGetter
    \/ GetTypes

SpecSummaryValues == Init /\ [][NextSummaryValues]_vars

-----------------------------------------------------------------------------
(* name and marketing_name of BaseProduct *)

\* ProductDescription() with every argument defaulted
DefaultProductDescription ==
    [ name                           |-> None,
      short_description              |-> None,
      marketing_name                 |-> None,
      manufacturer_by_marketing_name |-> None,
      marketing_url                  |-> None,
      marketing_text                 |-> None,
      marketing_appearance           |-> None ]

\* ProductDescription(<field>=v)
ProductDescription(field, v) == [DefaultProductDescription EXCEPT ![field] = v]

\* the getter of the property BaseProduct.name
name_getter(self) ==
    IF TruthyObject(self.product_description)
    THEN Return(Get(self.product_description).name)
    ELSE Return(None)

\* the getter of the property BaseProduct.marketing_name
marketing_name_getter(self) ==
    IF TruthyObject(self.product_description)
    THEN Return(Get(self.product_description).marketing_name)
    ELSE Return(None)

\* the setter of the property BaseProduct.marketing_name
marketing_name_setter(self, v) ==
    IF TruthyObject(self.product_description)
    THEN Effect([self EXCEPT !.product_description =
                     Some([Get(@) EXCEPT !.marketing_name = v])],
                Return(None))
    ELSE Effect([self EXCEPT !.product_description =
                     Some(ProductDescription("marketing_name", v))],
                Return(None))

\* variant: a name setter that always builds a new description
name_setter_replacing(self, v) ==
    Effect([self EXCEPT !.product_description = Some(ProductDescription("name", v))],
           Return(None))

\* the setter of the property BaseProduct.name
name_setter(self, v) ==
    IF TruthyObject(self.product_description)
    THEN Effect([self EXCEPT !.product_description =
                     Some([Get(@) EXCEPT !.name = v])],
                Return(None))
    ELSE Effect([self EXCEPT !.product_description =
                     Some(ProductDescription("name", v))],
                Return(None))

(* Inputs of the description *)

NameInputs == { None, Some(""), Some("Name A"), Some("Name B") }

MarketingNameInputs == { None, Some(""), Some("Some name"), Some("Other name") }

ProductDescriptionInputs ==
    { None,
      Some(DefaultProductDescription),
      Some(ProductDescription("marketing_name", Some("Some name"))),
      Some([DefaultProductDescription EXCEPT
               !.name = Some("Name A"),
               !.short_description = Some("Short"),
               !.marketing_url = Some("https://example.org")]) }

\* p.product_description = pd
AssignProductDescription ==
    \E pd \in ProductDescriptionInputs :
        /\ product' = [product EXCEPT !.product_description = pd]
        /\ ret' = Mutated
        /\ UNCHANGED <<geometry, values>>

\* p.name = v
AssignName ==
    \E v \in NameInputs :
        /\ product' = name_setter(product, v).self
        /\ ret' = Outcome("name_setter", <<v>>, name_setter(product, v).res)
        /\ UNCHANGED <<geometry, values>>

\* p.marketing_name = v
AssignMarketingName ==
    \E v \in MarketingNameInputs :
        /\ product' = marketing_name_setter(product, v).self
        /\ ret' = Outcome("marketing_name_setter", <<v>>,
                          marketing_name_setter(product, v).res)
        /\ UNCHANGED <<geometry, values>>

\* p.name
ReadName ==
    /\ ret' = Outcome("name_getter", << >>, name_getter(product))
    /\ UNCHANGED <<product, geometry, values>>

\* p.marketing_name
ReadMarketingName ==
    /\ ret' = Outcome("marketing_name_getter", << >>, marketing_name_getter(product))
    /\ UNCHANGED <<product, geometry, values>>

NextDescription ==
    \/ AssignProductDescription
    \/ AssignName
    \/ AssignMarketingName
    \/ ReadName
    \/ ReadMarketingName

SpecDescription == Init /\ [][NextDescription]_vars

-----------------------------------------------------------------------------
(* Claims about the enum-validated fields *)

ProductTypeNames == {"GLAZING", "SHADING", "MATERIAL"}

TokenTypeNames == {"PUBLISHED", "UNDEFINED", "PROPOSED", "INTRAGROUP", "INTERGROUP"}

NullOrIn(o, names) == o = None \/ Get(o) \in names

\* C1: after any sequence of constructions and assignments, accepted or
\* rejected, type, subtype and token_type are each null or a member name of
\* ProductType, ProductSubtype and TokenType.
C1_FieldsAreNullOrMemberNames ==
    /\ NullOrIn(product.type, ProductTypeNames)
    /\ NullOrIn(product.subtype, DOMAIN ProductSubtype)
    /\ NullOrIn(product.token_type, TokenTypeNames)

\* a rejected assignment to a product that holds validated values
C1_Witness ==
    /\ ret.op = "set_subtype"
    /\ ret.exc # None
    /\ product.type # None
    /\ product.subtype # None

\* the assignment named op, of a member name, succeeded and reads back; of any
\* other non-null string, failed with the error naming the field and the value
AssignmentChecked(op, names, what, field) ==
    ret.op = op /\ ret.args[1] # None =>
        IF Get(ret.args[1]) \in names
        THEN ret.exc = None /\ field = ret.args[1]
        ELSE ret.exc = Some(InvalidEnumValue(what, Get(ret.args[1])))

\* the construction failed on one of its non-member arguments
ConstructionChecked ==
    ret.op = "__init__" =>
        LET bad == { a \in { <<"product type", ret.args[1], ProductTypeNames>>,
                             <<"product subtype", ret.args[2], DOMAIN ProductSubtype>>,
                             <<"product token type", ret.args[3], TokenTypeNames>> } :
                       a[2] # None /\ Get(a[2]) \notin a[3] }
        IN  IF bad = {}
            THEN /\ ret.exc = None
                 /\ product.type = ret.args[1]
                 /\ product.subtype = ret.args[2]
                 /\ product.token_type = ret.args[3]
            ELSE \E a \in bad : ret.exc = Some(InvalidEnumValue(a[1], Get(a[2])))

\* C2: assigning a member name succeeds and reads back; any other non-null
\* string fails with InvalidEnumValue, at construction and on assignment,
\* for type, subtype and token_type.
C2_MemberNamesAcceptedOthersRejected ==
    /\ AssignmentChecked("set_type", ProductTypeNames, "product type", product.type)
    /\ AssignmentChecked("set_subtype", DOMAIN ProductSubtype, "product subtype",
                         product.subtype)
    /\ AssignmentChecked("set_token_type", TokenTypeNames, "product token type",
                         product.token_type)
    /\ ConstructionChecked

\* the member value "glazing" was assigned to type and rejected
C2_Witness ==
    /\ ret.op = "set_type"
    /\ ret.args = <<Some("glazing")>>
    /\ ret.exc = Some(InvalidEnumValue("product type", "glazing"))

-----------------------------------------------------------------------------
(* Claims about the thermal accessors *)

\* the non-null values stored under `field` in the thermal-IR results of the
\* summaries of p whose calculation standard is `name`
StoredCalculated(p, name, field) ==
    { Get(Get(p.integrated_spectral_averages_summaries[i].summary_values).thermal_ir)[field] :
        i \in { j \in DOMAIN p.integrated_spectral_averages_summaries :
                  LET summary == p.integrated_spectral_averages_summaries[j]
                  IN  /\ summary.calculation_standard = Some(name)
                      /\ summary.summary_values # None
                      /\ Get(summary.summary_values).thermal_ir # None
                      /\ Get(Get(summary.summary_values).thermal_ir)[field] # None } }

\* the predefined value of p under `field`, null without physical properties
StoredPredefined(p, field) ==
    IF p.physical_properties = None THEN None ELSE Get(p.physical_properties)[field]

\* C3: get_tir_front returns the calculated transmittance-front of a summary of
\* the requested standard when that value is non-null, otherwise
\* predefined_tir_front when physical properties exist, otherwise null; a
\* present calculated value always wins over the predefined value.
C3_TirFrontCalculatedElsePredefined ==
    ret.op = "get_tir_front" =>
        LET calculated == StoredCalculated(product, StandardName(ret.args),
                                           "transmittance_front_diffuse_diffuse")
        IN  /\ ret.exc = None
            /\ IF calculated # {}
               THEN ret.value \in calculated
               ELSE ret.value = StoredPredefined(product, "predefined_tir_front")

\* the accessor named op returned a calculated value of its own quantity or
\* else exactly its own predefined field
OwnQuantity(op, calculated_field, predefined_field) ==
    ret.op = op =>
        \/ ret.value \in StoredCalculated(product, StandardName(ret.args), calculated_field)
        \/ ret.value = StoredPredefined(product, predefined_field)

\* C4: each of the four accessors reads its own calculated quantity and falls
\* back only to its own same-named predefined field, never to another
\* quantity or the opposite side.
C4_EachAccessorReadsItsOwnQuantity ==
    /\ OwnQuantity("get_tir_front", "transmittance_front_diffuse_diffuse",
                   "predefined_tir_front")
    /\ OwnQuantity("get_tir_back", "transmittance_back_diffuse_diffuse",
                   "predefined_tir_back")
    /\ OwnQuantity("get_emissivity_front", "emissivity_front_hemispheric",
                   "predefined_emissivity_front")
    /\ OwnQuantity("get_emissivity_back", "emissivity_back_hemispheric",
                   "predefined_emissivity_back")

\* get_tir_back fell back to predefined_tir_back although the matching summary
\* holds front values and the other predefined fields differ
C4_Witness ==
    /\ ret.op = "get_tir_back"
    /\ ret.value = Some(70)
    /\ StoredPredefined(product, "predefined_emissivity_back") = Some(90)
    /\ StoredCalculated(product, StandardName(ret.args),
                        "transmittance_front_diffuse_diffuse") = {Some(12)}
    /\ StoredCalculated(product, StandardName(ret.args),
                        "transmittance_back_diffuse_diffuse") = {}

ThermalAccessors ==
    {"get_tir_front", "get_tir_back", "get_emissivity_front", "get_emissivity_back"}

\* C5: the four accessors never raise for missing data (empty summary list,
\* null summary_values, null thermal_ir, null physical_properties).
C5_AccessorsNeverRaise ==
    ret.op \in ThermalAccessors => ret.exc = None

\* an accessor returned null for a product whose matching summaries lack
\* summary_values and thermal_ir and that has no physical properties
C5_Witness ==
    /\ ret.op \in ThermalAccessors
    /\ ret.exc = None
    /\ ret.value = None
    /\ product.physical_properties = None
    /\ \E i, j \in DOMAIN product.integrated_spectral_averages_summaries :
          LET a == product.integrated_spectral_averages_summaries[i]
              b == product.integrated_spectral_averages_summaries[j]
          IN  /\ a.calculation_standard = Some(StandardName(ret.args))
              /\ b.calculation_standard = Some(StandardName(ret.args))
              /\ a.summary_values = None
              /\ b.summary_values # None
              /\ Get(b.summary_values).thermal_ir = None

-----------------------------------------------------------------------------
(* Claims about has_thermal_ir_wavelengths *)

\* the wavelengths of all entries of all angle blocks of p, in tenths; empty
\* when physical properties, optical properties or optical data are absent
AllWavelengths(p) ==
    IF HasOpticalData(p)
    THEN UNION { { angle_blocks(p)[b].wavelength_data[i].w[1] * 10
                     + angle_blocks(p)[b].wavelength_data[i].w[2] :
                     i \in DOMAIN angle_blocks(p)[b].wavelength_data } :
                 b \in DOMAIN angle_blocks(p) }
    ELSE {}

\* C6: has_thermal_ir_wavelengths is true iff some wavelength entry of some
\* angle block is strictly greater than 2500, and is false (not null)
\* otherwise, also when physical properties, optical properties or optical
\* data are absent; it is recomputed on every read.
C6_TrueIffSomeWavelengthAbove2500 ==
    ret.op = "has_thermal_ir_wavelengths" =>
        /\ ret.exc = None
        /\ ret.value = Some(\E w \in AllWavelengths(product) : w > 25000)

\* the wavelength lists of the angle blocks of p, when p has exactly one block
OnlyBlock(p) ==
    IF HasOpticalData(p) /\ Len(angle_blocks(p)) = 1
    THEN Some(angle_blocks(p)[1].wavelength_data)
    ELSE None

\* C7: has_thermal_ir_wavelengths is false (here: not true) when the only
\* entry is 0.3 and true once an entry of 2500 or more is appended to the list.
C7_TrueOnceAtLeast2500Appended ==
    ret.op = "has_thermal_ir_wavelengths" /\ OnlyBlock(product) # None =>
        LET data == Get(OnlyBlock(product))
        IN  /\ data = <<WavelengthEntry(0, 3)>> => ret.value # Some(TRUE)
            /\ ( /\ Len(data) = 2
                 /\ data[1] = WavelengthEntry(0, 3)
                 /\ data[2].w[1] >= 2500 ) => ret.value = Some(TRUE)

-----------------------------------------------------------------------------
(* Claims about the composition-derived predicates *)

\* some layer of p, at any position, is COATED with details present and a
\* true coated_side_faces_exterior
SomeCoatedLayerFacesExterior(p) ==
    \E i \in DOMAIN p.composition :
        /\ p.composition[i].subtype = Some("COATED")
        /\ p.composition[i].composition_details # None
        /\ Get(p.composition[i].composition_details).coated_side_faces_exterior = Some(TRUE)

\* C8: can_have_predefined_thermal_values is true iff subtype is MONOLITHIC, or
\* subtype is LAMINATE and has_coating_on_surface is false; false for every
\* other subtype (null and COATED included) and for a LAMINATE with a COATED
\* layer whose coated_side_faces_exterior is true.
C8_PredefinedOnlyMonolithicOrUncoatedLaminate ==
    ret.op = "can_have_predefined_thermal_values" =>
        /\ ret.exc = None
        /\ ret.value = Some(\/ product.subtype = Some("MONOLITHIC")
                            \/ /\ product.subtype = Some("LAMINATE")
                               /\ has_coating_on_surface(product) = Return(Some(FALSE)))
        /\ product.subtype = Some("LAMINATE") /\ SomeCoatedLayerFacesExterior(product)
               => ret.value = Some(FALSE)
        /\ product.subtype \in {None, Some("COATED")} => ret.value = Some(FALSE)

\* the predicate was read as false on a LAMINATE with an exterior coating
C8_Witness ==
    /\ ret.op = "can_have_predefined_thermal_values"
    /\ ret.value = Some(FALSE)
    /\ product.subtype = Some("LAMINATE")
    /\ SomeCoatedLayerFacesExterior(product)

\* C9: has_coating_on_surface is true iff subtype is LAMINATE and some layer is
\* COATED with composition_details present and coated_side_faces_exterior
\* true, whatever the order of the layers and however many COATED layers
\* there are; false for every non-LAMINATE product.
C9_CoatingOnSurfaceIffSomeCoatedLayerFacesExterior ==
    ret.op = "has_coating_on_surface" =>
        /\ ret.exc = None
        /\ ret.value = Some(/\ product.subtype = Some("LAMINATE")
                            /\ SomeCoatedLayerFacesExterior(product))

\* the predicate was read as true on a LAMINATE whose first COATED layer has a
\* false flag and whose second COATED layer has a true one
C9_Witness ==
    /\ ret.op = "has_coating_on_surface"
    /\ ret.value = Some(TRUE)
    /\ Len(product.composition) >= 2
    /\ product.composition[1] =
           ProductComposition(Some("COATED"), Some(CompositionDetails(Some(FALSE))))
    /\ product.composition[2] =
           ProductComposition(Some("COATED"), Some(CompositionDetails(Some(TRUE))))

-----------------------------------------------------------------------------
(* Claims about BlindGeometry *)

\* C10: set_rise_from_curvature checks in this order: slat_curvature unset
\* fails with MissingValue even when slat_width is set; slat_curvature <= 0
\* sets rise = 0 and succeeds without slat_width; otherwise slat_width unset
\* fails with MissingValue.
C10_RiseFromCurvaturePreconditionOrder ==
    [][ ret'.op = "set_rise_from_curvature" =>
          IF geometry.slat_curvature = None
          THEN ret'.exc = Some(MissingValue("slat_curvature"))
          ELSE IF Get(geometry.slat_curvature) <= 0
          THEN /\ ret'.exc = None
               /\ ret'.value = Some(0)
               /\ geometry'.rise_ = Some(0)
          ELSE geometry.slat_width = None =>
                   ret'.exc = Some(MissingValue("slat_width")) ]_vars

\* the call succeeded with a negative curvature and no slat_width, replacing
\* an earlier rise by 0
C10_Witness ==
    /\ ret.op = "set_rise_from_curvature"
    /\ ret.exc = None
    /\ geometry.slat_width = None
    /\ geometry.slat_curvature = Some(-10000)
    /\ geometry.rise_ = Some(0)

\* a * b and a / 4 lose no digit at the resolution of the model
ExactProduct(a, b) == (a * b) % DecimalScale = 0

ExactQuarter(a) == a % 4 = 0

\* s is the representable value nearest the square root of v, where v is in
\* units of 10^-(2 * DecimalPlaces)
NearestRoot(s, v) ==
    /\ s >= 0
    /\ IF s = 0 THEN v = 0 ELSE s * s - s < v /\ v <= s * s + s

\* C11: for slat_curvature c > 0 and slat_width w set,
\* set_rise_from_curvature stores and returns w/2 when c*c - w*w/4 < 0 and
\* c - sqrt(c*c - w*w/4) otherwise; w = 16, c = 1 gives 8 and w = 10, c = 5
\* gives 5.
C11_RiseFromCurvatureFormula ==
    ( /\ ret.op = "set_rise_from_curvature"
      /\ geometry.slat_curvature # None
      /\ geometry.slat_width # None ) =>
        LET c == Get(geometry.slat_curvature)
            w == Get(geometry.slat_width)
            v == c * c - (w * w) \div 4
        IN  ( /\ c > 0
              /\ ExactProduct(c, c)
              /\ ExactProduct(w, w)
              /\ ExactQuarter((w * w) \div DecimalScale) ) =>
                /\ ret.exc = None
                /\ ret.value # None
                /\ ret.value = geometry.rise_
                /\ IF v < 0
                   THEN 2 * Get(geometry.rise_) = w
                   ELSE NearestRoot(c - Get(geometry.rise_), v)
                /\ (w = 16000 /\ c = 1000) => geometry.rise_ = Some(8000)
                /\ (w = 10000 /\ c = 5000) => geometry.rise_ = Some(5000)

\* the call stored a rise whose square root had to be rounded up:
\* w = 10, c = 6 gives 6 - sqrt(11) = 2.683
C11_Witness ==
    /\ ret.op = "set_rise_from_curvature"
    /\ ret.exc = None
    /\ geometry.slat_width = Some(10000)
    /\ geometry.slat_curvature = Some(6000)
    /\ geometry.rise_ = Some(2683)

\* C12: set_curvature_from_rise checks in this order: rise unset fails with
\* MissingValue; rise <= 0 sets slat_curvature = 0 and succeeds without
\* slat_width; otherwise slat_width unset fails with MissingValue, and
\* rise > slat_width/2 fails with InvalidGeometry while rise = slat_width/2
\* is accepted.
C12_CurvatureFromRisePreconditionOrder ==
    [][ ret'.op = "set_curvature_from_rise" =>
          IF geometry.rise_ = None
          THEN ret'.exc = Some(MissingValue("rise"))
          ELSE IF Get(geometry.rise_) <= 0
          THEN /\ ret'.exc = None
               /\ ret'.value = Some(0)
               /\ geometry'.slat_curvature = Some(0)
          ELSE IF geometry.slat_width = None
          THEN ret'.exc = Some(MissingValue("slat_width"))
          ELSE IF 2 * Get(geometry.rise_) > Get(geometry.slat_width)
          THEN ret'.exc = Some(InvalidGeometry)
          ELSE ret'.exc = None ]_vars

\* the call accepted a rise of exactly slat_width/2
C12_Witness ==
    /\ ret.op = "set_curvature_from_rise"
    /\ ret.exc = None
    /\ geometry.slat_width = Some(10000)
    /\ geometry.rise_ = Some(5000)
    /\ geometry.slat_curvature = Some(5000)

\* c is the representable value nearest n / d, where d > 0
NearestQuotient(c, n, d) ==
    /\ 2 * (c * d - n) <= d
    /\ 2 * (n - c * d) <= d

\* C13: for rise r with 0 < r <= w/2 and slat_width w set,
\* set_curvature_from_rise stores and returns (r*r + w*w/4) / (2*r);
\* w = 10, r = 2.5 gives 6.25.
C13_CurvatureFromRiseFormula ==
    ( /\ ret.op = "set_curvature_from_rise"
      /\ geometry.rise_ # None
      /\ geometry.slat_width # None ) =>
        LET r == Get(geometry.rise_)
            w == Get(geometry.slat_width)
            n == r * r + (w * w) \div 4
        IN  ( /\ 0 < r
              /\ 2 * r <= w
              /\ ExactProduct(r, r)
              /\ ExactProduct(w, w)
              /\ ExactQuarter((w * w) \div DecimalScale) ) =>
                /\ ret.exc = None
                /\ ret.value # None
                /\ ret.value = geometry.slat_curvature
                /\ NearestQuotient(Get(geometry.slat_curvature), n, 2 * r)
                /\ (w = 10000 /\ r = 2500) => geometry.slat_curvature = Some(6250)

\* the call stored a curvature whose quotient had to be rounded up:
\* w = 10, r = 3 gives 34/6 = 5.667
C13_Witness ==
    /\ ret.op = "set_curvature_from_rise"
    /\ ret.exc = None
    /\ geometry.slat_width = Some(10000)
    /\ geometry.rise_ = Some(3000)
    /\ geometry.slat_curvature = Some(5667)

\* C14: reading rise on a geometry with no stored rise and a defined
\* slat_curvature (positive, zero or negative) gives what
\* set_rise_from_curvature derives from that curvature, and stores it;
\* slat_width 16 with slat_curvature 1 gives 8, slat_curvature 0 gives 0.
C14_RiseReadDerivesFromCurvature ==
    [][ ( /\ ret'.op = "rise"
          /\ geometry.rise_ = None
          /\ geometry.slat_curvature # None ) =>
            /\ ret'.exc = set_rise_from_curvature(geometry).res.exc
            /\ ret'.value = set_rise_from_curvature(geometry).res.value
            /\ geometry' = set_rise_from_curvature(geometry).self
            /\ geometry.slat_curvature = Some(0) => ret'.value = Some(0) ]_vars

-----------------------------------------------------------------------------
(* Claims about the integrated spectral averages *)

\* the fixed schema: the fields of each record that hold a sub-record
SubRecordFields(class) ==
    CASE class = "IntegratedSpectralAveragesSummaryValues" ->
            { "solar", "photopic", "thermal_ir", "tuv", "spf", "tdw", "tkr", "color" }
      [] class \in { "OpticalStandardMethodResults", "OpticalColorResults" } ->
            { "transmittance_front", "transmittance_back",
              "reflectance_front", "reflectance_back" }
      [] class = "OpticalColorFluxResults" ->
            { "direct_direct", "direct_diffuse", "direct_hemispherical",
              "diffuse_diffuse" }
      [] class = "OpticalColorResult" -> { "trichromatic", "lab", "rgb" }
      [] OTHER -> { }

\* the record held by a sub-record field
SubRecordClass(class, f) ==
    CASE class = "IntegratedSpectralAveragesSummaryValues" ->
            ( CASE f = "thermal_ir" -> "ThermalIRResults"
                [] f = "color" -> "OpticalColorResults"
                [] OTHER -> "OpticalStandardMethodResults" )
      [] class = "OpticalStandardMethodResults" -> "OpticalStandardMethodFluxResults"
      [] class = "OpticalColorResults" -> "OpticalColorFluxResults"
      [] class = "OpticalColorFluxResults" -> "OpticalColorResult"
      [] OTHER -> "leaf record"

\* no sub-record is null at any level and every other field is null
RECURSIVE FullyInitialized(_, _)
FullyInitialized(obj, class) ==
    \A f \in DOMAIN obj :
        IF f \in SubRecordFields(class)
        THEN /\ obj[f] # None
             /\ FullyInitialized(Get(obj[f]), SubRecordClass(class, f))
        ELSE obj[f] = None

FactoryOf ==
    [ IntegratedSpectralAveragesSummaryValues |->
          "IntegratedSpectralAveragesSummaryValuesFactory.create",
      OpticalStandardMethodResults |-> "OpticalStandardMethodResultsFactory.create",
      OpticalColorResults |-> "OpticalColorResultsFactory.create" ]

\* C15: an instance produced by IntegratedSpectralAveragesSummaryValuesFactory,
\* OpticalStandardMethodResultsFactory or OpticalColorResultsFactory has no
\* null sub-record at any level of its schema while every leaf field is
\* null; a default-constructed instance of the same record has every
\* sub-record null.
C15_FactoriesPopulateEverySubRecord ==
    \A class \in DOMAIN FactoryOf :
        /\ ret.op = FactoryOf[class] =>
              /\ ret.exc = None
              /\ ret.value # None
              /\ FullyInitialized(Get(ret.value), class)
        /\ ret.op = class =>
              /\ ret.exc = None
              /\ ret.value # None
              /\ \A f \in SubRecordFields(class) : Get(ret.value)[f] = None

\* the summary-values factory has run: the deepest colour leaf record exists
\* and holds no value
C15_Witness ==
    /\ ret.op = "IntegratedSpectralAveragesSummaryValuesFactory.create"
    /\ ret.value = Some(values)
    /\ values.color # None
    /\ Get(values.color).reflectance_back # None
    /\ Get(Get(values.color).reflectance_back).diffuse_diffuse # None
    /\ Get(Get(Get(values.color).reflectance_back).diffuse_diffuse).rgb =
           Some(RGBResult(None, None, None))
    /\ Get(values.tkr).reflectance_back = Some(DefaultFluxResults)

\* some record on the way to the last attribute of the path is null
RECURSIVE BrokenLink(_, _)
BrokenLink(obj, path) ==
    IF Len(path) <= 1 THEN FALSE
    ELSE IF obj[Head(path)] = None THEN TRUE
    ELSE BrokenLink(Get(obj[Head(path)]), Tail(path))

\* C16: every convenience getter of IntegratedSpectralAveragesSummaryValues
\* returns null and never raises whenever a record on its access path is
\* null; on a default-constructed instance every getter returns null.
C16_GettersReturnNullOnMissingAncestor ==
    ret.op \in GetterNames =>
        /\ ret.exc = None
        /\ BrokenLink(values, GetterPath[ret.op]) => ret.value = None
        /\ values = DefaultSummaryValues => ret.value = None

\* tf_ciex was read where color and its transmittance_front exist but the
\* direct_direct record below them is null
C16_Witness ==
    /\ ret.op = "tf_ciex"
    /\ ret.exc = None
    /\ ret.value = None
    /\ values.color = Some(ColorResultsPartial)
    /\ Get(values.color).transmittance_front # None
    /\ Get(Get(values.color).transmittance_front).direct_direct = None

-----------------------------------------------------------------------------
(* Claims about PhysicalProperties *)

\* C17: a PhysicalProperties record has a non-null optical_properties after
\* construction, whether optical_properties was omitted or passed as null,
\* and that OpticalProperties has a non-null optical_data_type.
C17_PhysicalPropertiesHasOpticalProperties ==
    product.physical_properties # None =>
        /\ Get(product.physical_properties).optical_properties # None
        /\ Get(Get(product.physical_properties).optical_properties).optical_data_type
               # None

\* a PhysicalProperties constructed with only predefined values was assigned
C17_Witness ==
    /\ ret = Mutated
    /\ product.physical_properties # None
    /\ Get(product.physical_properties).predefined_tir_front = Some(60)
    /\ Get(product.physical_properties).optical_properties # None
    /\ Get(Get(product.physical_properties).optical_properties).optical_data = None

-----------------------------------------------------------------------------
(* Claims about sequences of calls *)

\* C18: for slat_width w > 0 and a stored rise r with 0 < r <= w/2,
\* set_curvature_from_rise followed by set_rise_from_curvature leaves the
\* rise equal to r.
C18_RiseCurvatureRoundTrip ==
    [][ ( /\ ret.op = "set_curvature_from_rise"
          /\ ret.exc = None
          /\ ret'.op = "set_rise_from_curvature"
          /\ geometry.slat_width # None
          /\ geometry.rise_ # None )
        => ( ( /\ Get(geometry.slat_width) > 0
               /\ 0 < Get(geometry.rise_)
               /\ 2 * Get(geometry.rise_) <= Get(geometry.slat_width) )
             => /\ ret'.exc = None
                /\ geometry'.rise_ = geometry.rise_ ) ]_vars

\* the accessor named op returned a calculated value whenever a summary of
\* the requested standard stores a non-null one
CalculatedWins(op, calculated_field) ==
    ( /\ ret.op = op
      /\ StoredCalculated(product, StandardName(ret.args), calculated_field) # {} )
    => /\ ret.exc = None
       /\ ret.value \in StoredCalculated(product, StandardName(ret.args),
                                          calculated_field)

\* C19: for every non-null calculated value stored in a summary of the
\* requested standard, the value 0 included, get_tir_front, get_tir_back,
\* get_emissivity_front and get_emissivity_back return that calculated value
\* and not the predefined one.
C19_CalculatedValueWinsEvenWhenZero ==
    /\ CalculatedWins("get_tir_front", "transmittance_front_diffuse_diffuse")
    /\ CalculatedWins("get_tir_back", "transmittance_back_diffuse_diffuse")
    /\ CalculatedWins("get_emissivity_front", "emissivity_front_hemispheric")
    /\ CalculatedWins("get_emissivity_back", "emissivity_back_hemispheric")

\* the call changed no field of the geometry but `field`, and none when it
\* raised
OnlyChanges(field) ==
    /\ \A f \in DOMAIN geometry \ {field} : geometry'[f] = geometry[f]
    /\ DOMAIN geometry' = DOMAIN geometry
    /\ ret'.exc # None => geometry' = geometry

\* C20: set_rise_from_curvature changes no field of the geometry other than
\* the stored rise and set_curvature_from_rise none other than
\* slat_curvature; when either fails every field keeps its previous value.
C20_ConversionsChangeOnlyTheirTarget ==
    [][ /\ ret'.op = "set_rise_from_curvature" => OnlyChanges("rise_")
        /\ ret'.op = "set_curvature_from_rise" => OnlyChanges("slat_curvature")
      ]_vars

\* set_curvature_from_rise failed with InvalidGeometry and the earlier
\* curvature is still stored
C20_Witness ==
    /\ ret.op = "set_curvature_from_rise"
    /\ ret.exc = Some(InvalidGeometry)
    /\ geometry.rise_ = Some(9000)
    /\ geometry.slat_width = Some(10000)
    /\ geometry.slat_curvature = Some(13000)

-----------------------------------------------------------------------------
(* Further claims about the thermal accessors *)

\* the standard a call asks for: its argument, "NFRC" when omitted
RequestedStandard == IF ret.args = << >> THEN "NFRC" ELSE ret.args[1]

PredefinedFieldOf ==
    [ get_tir_front |-> "predefined_tir_front",
      get_tir_back |-> "predefined_tir_back",
      get_emissivity_front |-> "predefined_emissivity_front",
      get_emissivity_back |-> "predefined_emissivity_back" ]

\* what the accessor named op gives for product p and standard name
AccessorResult(op, p, name) ==
    CASE op = "get_tir_front" -> get_tir_front(p, name)
      [] op = "get_tir_back" -> get_tir_back(p, name)
      [] op = "get_emissivity_front" -> get_emissivity_front(p, name)
      [] op = "get_emissivity_back" -> get_emissivity_back(p, name)

IsRequested(summary) == summary.calculation_standard = Some(RequestedStandard)

\* p without the summaries of other standards than the requested one
OnlyRequested(p) ==
    [p EXCEPT !.integrated_spectral_averages_summaries = SelectSeq(@, IsRequested)]

\* C21: a summary whose calculation_standard differs from the requested
\* standard never influences a thermal accessor: the result is the one for
\* the product without those summaries, with only such summaries it is the
\* predefined value (or null), and an omitted standard argument means "NFRC".
C21_OtherStandardsNeverInfluence ==
    ret.op \in ThermalAccessors =>
        /\ ret.exc = None
        /\ ret.value = AccessorResult(ret.op, OnlyRequested(product),
                                      RequestedStandard).value
        /\ OnlyRequested(product).integrated_spectral_averages_summaries = << >>
              => ret.value = StoredPredefined(product, PredefinedFieldOf[ret.op])

\* get_tir_front() without argument returned the predefined value although a
\* summary of another standard holds a calculated value
C21_Witness ==
    /\ ret.op = "get_tir_front"
    /\ ret.args = << >>
    /\ ret.value = Some(60)
    /\ Len(product.integrated_spectral_averages_summaries) = 1
    /\ product.integrated_spectral_averages_summaries[1].calculation_standard
           = Some("CES")
    /\ StoredCalculated(product, "CES", "transmittance_front_diffuse_diffuse")
           = { Some(10) }

-----------------------------------------------------------------------------
(* Further claims about BlindGeometry *)

\* (rise^2 + width^2/4) / (2*rise) as the method computes it
ComputedCurvature(r, w) ==
    DecimalDiv(DecimalMul(r, r) + DecimalDiv(DecimalMul(w, w), Decimal(4)),
               DecimalMul(r, Decimal(2)))

\* C22: in set_curvature_from_rise the clamp to width/2 is unreachable: for
\* every input that passes the preconditions (rise > 0, slat_width set,
\* rise <= slat_width/2) the computed value is non-negative and the stored
\* curvature is the computed value.
C22_CurvatureClampUnreachable ==
    ( /\ ret.op = "set_curvature_from_rise"
      /\ ret.exc = None
      /\ geometry.rise_ # None
      /\ geometry.slat_width # None ) =>
        LET r == Get(geometry.rise_)
            w == Get(geometry.slat_width)
        IN  ( r > 0 /\ 2 * r <= w ) =>
                /\ ComputedCurvature(r, w) >= 0
                /\ geometry.slat_curvature = Some(ComputedCurvature(r, w))
                /\ ret.value = Some(ComputedCurvature(r, w))

\* the call stored the computed 113/14 = 8.071 for w = 16, r = 7, which is
\* not width/2
C22_Witness ==
    /\ ret.op = "set_curvature_from_rise"
    /\ ret.exc = None
    /\ geometry.slat_width = Some(16000)
    /\ geometry.rise_ = Some(7000)
    /\ geometry.slat_curvature = Some(8071)

-----------------------------------------------------------------------------
(* Further claims about the enum-validated fields *)

ValidatedFields == { "type", "subtype", "token_type" }

\* the assignment named op to `field` kept the other validated fields, kept
\* `field` too when it was rejected, and stored its argument when it was not
AssignsOnly(op, field) ==
    ret'.op = op =>
        /\ \A f \in ValidatedFields \ {field} : product'[f] = product[f]
        /\ ret'.exc # None => product'[field] = product[field]
        /\ ret'.exc = None => product'[field] = ret'.args[1]

\* C23: a rejected assignment to type, subtype or token_type leaves the
\* field at its previous value and the other two validated fields
\* unchanged; a successful assignment to one of them never changes the
\* other two.
C23_AssignmentTouchesOnlyItsField ==
    [][ /\ AssignsOnly("set_type", "type")
        /\ AssignsOnly("set_subtype", "subtype")
        /\ AssignsOnly("set_token_type", "token_type") ]_vars

\* a rejected token_type on a product whose three fields hold member names
C23_Witness ==
    /\ ret.op = "set_token_type"
    /\ ret.exc # None
    /\ product.type = Some("GLAZING")
    /\ product.subtype = Some("COATED")
    /\ product.token_type = Some("PUBLISHED")

\* C24: after every successful set_rise_from_curvature with slat_width >= 0
\* (or unset, in the curvature <= 0 branch) the stored rise satisfies
\* 0 <= rise, and rise <= slat_width/2 when slat_width is set, so a
\* set_curvature_from_rise that follows immediately does not fail with
\* InvalidGeometry.
C24_DerivedRiseWithinHalfWidth ==
    ( /\ ret.op = "set_rise_from_curvature"
      /\ ret.exc = None
      /\ IF geometry.slat_width = None THEN TRUE ELSE Get(geometry.slat_width) >= 0 )
    => /\ geometry.rise_ # None
       /\ Get(geometry.rise_) >= 0
       /\ geometry.slat_width # None =>
              2 * Get(geometry.rise_) <= Get(geometry.slat_width)
       /\ set_curvature_from_rise(geometry).res.exc # Some(InvalidGeometry)

\* the call stored the largest rise the width allows: w = 16, c = 1 gives 8
C24_Witness ==
    /\ ret.op = "set_rise_from_curvature"
    /\ ret.exc = None
    /\ geometry.slat_width = Some(16000)
    /\ geometry.slat_curvature = Some(1000)
    /\ geometry.rise_ = Some(8000)
    /\ set_curvature_from_rise(geometry).res.exc = None

\* C25: the rise getter derives the rise from the curvature only while the
\* stored rise is null or zero and slat_curvature is non-zero; a read over a
\* stored non-zero rise returns that value and changes nothing, and assigning
\* slat_curvature or slat_width never touches the stored rise, so the value
\* read stays the same whatever is assigned to them afterwards.
C25_StoredRiseIsSticky ==
    [][ /\ ( ret'.op = "rise" /\ TruthyNumber(geometry.rise_) ) =>
              /\ ret'.exc = None
              /\ ret'.value = geometry.rise_
              /\ geometry' = geometry
        /\ ( ret'.op = "rise" /\ ~TruthyNumber(geometry.rise_)
                              /\ ~TruthyNumber(geometry.slat_curvature) ) =>
              /\ ret'.exc = None
              /\ ret'.value = geometry.rise_
              /\ geometry' = geometry
        /\ ( ret'.op = "rise" /\ ~TruthyNumber(geometry.rise_)
                              /\ TruthyNumber(geometry.slat_curvature) ) =>
              /\ geometry' = set_rise_from_curvature(geometry).self
              /\ ret'.exc = set_rise_from_curvature(geometry).res.exc
        /\ ( ret'.op = "mutate"
             /\ \/ geometry'.slat_curvature # geometry.slat_curvature
                \/ geometry'.slat_width # geometry.slat_width ) =>
              geometry'.rise_ = geometry.rise_ ]_vars

\* a read returned the stored non-zero rise although the curvature and width
\* now set would derive a different one
C25_Witness ==
    /\ ret.op = "rise"
    /\ ret.exc = None
    /\ TruthyNumber(geometry.rise_)
    /\ ret.value = geometry.rise_
    /\ TruthyNumber(geometry.slat_curvature)
    /\ Explored(geometry)
    /\ ~Raised(set_rise_from_curvature(geometry).res)
    /\ set_rise_from_curvature(geometry).self.rise_ # geometry.rise_

-----------------------------------------------------------------------------
(* Claims about the search over the summaries *)

CalculatedFieldOf ==
    [ get_tir_front |-> "transmittance_front_diffuse_diffuse",
      get_tir_back |-> "transmittance_back_diffuse_diffuse",
      get_emissivity_front |-> "emissivity_front_hemispheric",
      get_emissivity_back |-> "emissivity_back_hemispheric" ]

\* the value a summary stores under `field`, null when summary_values or
\* thermal_ir is null
StoredIn(summary, field) ==
    IF summary.summary_values = None THEN None
    ELSE IF Get(summary.summary_values).thermal_ir = None THEN None
    ELSE Get(Get(summary.summary_values).thermal_ir)[field]

\* the stored value of the first summary, in list order, that carries the
\* standard `name` and a non-null value under `field`; null when there is none
RECURSIVE FirstStored(_, _, _)
FirstStored(summaries, name, field) ==
    IF summaries = << >> THEN None
    ELSE IF /\ Head(summaries).calculation_standard = Some(name)
            /\ StoredIn(Head(summaries), field) # None
    THEN StoredIn(Head(summaries), field)
    ELSE FirstStored(Tail(summaries), name, field)

\* C26: with several summaries of the requested standard a thermal accessor
\* returns the value of the first one, in list order, whose value for the
\* quantity is non-null; a matching summary with a null value, null
\* summary_values or null thermal_ir does not end the search, and the
\* predefined value is used only when no matching summary yields a value.
C26_FirstMatchingValueWins ==
    ret.op \in ThermalAccessors =>
        LET first == FirstStored(product.integrated_spectral_averages_summaries,
                                 RequestedStandard, CalculatedFieldOf[ret.op])
        IN  /\ ret.exc = None
            /\ first # None => ret.value = first
            /\ first = None =>
                  ret.value = StoredPredefined(product, PredefinedFieldOf[ret.op])

\* the same with the stored value 0 of the two transmittances left out
C26_FirstMatchingNonZeroValueWins ==
    ( /\ ret.op \in ThermalAccessors
      /\ \A i \in DOMAIN product.integrated_spectral_averages_summaries :
            ret.op \in {"get_tir_front", "get_tir_back"} =>
                StoredIn(product.integrated_spectral_averages_summaries[i],
                         CalculatedFieldOf[ret.op]) # Some(0) )
    => C26_FirstMatchingValueWins

\* the search went past a matching summary without a value and returned the
\* value of the second matching summary, not the predefined one
C26_SearchContinues ==
    /\ ret.op = "get_emissivity_back"
    /\ Len(product.integrated_spectral_averages_summaries) = 2
    /\ \A i \in 1..2 : IsRequested(product.integrated_spectral_averages_summaries[i])
    /\ StoredIn(product.integrated_spectral_averages_summaries[1],
                "emissivity_back_hemispheric") = None
    /\ StoredIn(product.integrated_spectral_averages_summaries[2],
                "emissivity_back_hemispheric") = Some(40)
    /\ StoredPredefined(product, "predefined_emissivity_back") = Some(90)
    /\ ret.value = Some(40)

-----------------------------------------------------------------------------
(* Claims about validation by member name *)

MemberValues(enum) == { enum[n] : n \in DOMAIN enum }

\* the assignment named op to `field` accepted exactly the member names of
\* enum, rejected its member values, and accepted null, which reset the field
ValidatedByName(op, enum, field) ==
    ret'.op = op =>
        LET v == ret'.args[1]
        IN  /\ v = None => ret'.exc = None /\ product'[field] = None
            /\ v # None => ( ret'.exc = None <=> Get(v) \in DOMAIN enum )
            /\ ( v # None /\ Get(v) \in MemberValues(enum) ) => ret'.exc # None
            /\ ret'.exc = None => product'[field] = v
            /\ ret'.exc # None => product'[field] = product[field]

\* C27: type, subtype and token_type are validated against the member names,
\* exactly and case-sensitively, not against the member values: "GLAZING",
\* "COATED" and "PUBLISHED" are accepted, the values "glazing",
\* "Coated glass" and "published" are rejected; null is always accepted and
\* resets the field.
C27_NamesAcceptedValuesRejected ==
    [][ /\ ValidatedByName("set_type", ProductType, "type")
        /\ ValidatedByName("set_subtype", ProductSubtype, "subtype")
        /\ ValidatedByName("set_token_type", TokenType, "token_type")
        /\ ret'.args = <<Some("GLAZING")>> => ret'.exc = None
        /\ ret'.args = <<Some("COATED")>> => ret'.exc = None
        /\ ret'.args = <<Some("PUBLISHED")>> => ret'.exc = None
        /\ ret'.args \in { <<Some("glazing")>>, <<Some("Coated glass")>>,
                            <<Some("published")>> } => ret'.exc # None
      ]_vars

\* the member value "Coated glass" was rejected for a subtype that holds the
\* member name "COATED"
C27_Witness ==
    /\ ret.op = "set_subtype"
    /\ ret.args = <<Some("Coated glass")>>
    /\ ret.exc = Some(InvalidEnumValue("product subtype", "Coated glass"))
    /\ product.subtype = Some("COATED")

\* null was assigned to the token_type and the field reads null
C27_NullAccepted ==
    /\ ret.op = "set_token_type"
    /\ ret.args = <<None>>
    /\ ret.exc = None
    /\ product.token_type = None
    /\ product.type = Some("GLAZING")

-----------------------------------------------------------------------------
(* Claims about the leaf each getter reads *)

\* the leaf that the name of each of these getters denotes
DenotedPath ==
    [ tf_tuv |-> <<"tuv", "transmittance_front", "direct_direct">>,
      tf_spf |-> <<"spf", "transmittance_front", "direct_direct">>,
      tf_tdw |-> <<"tdw", "transmittance_front", "direct_direct">>,
      tf_tkr |-> <<"tkr", "transmittance_front", "direct_direct">>,
      tf_g |-> <<"color", "transmittance_front", "direct_direct", "rgb", "g">>,
      rf_g |-> <<"color", "reflectance_front", "direct_direct", "rgb", "g">>,
      rb_g |-> <<"color", "reflectance_back", "direct_direct", "rgb", "g">>,
      tf_b |-> <<"color", "transmittance_front", "direct_direct", "rgb", "b">>,
      rf_b |-> <<"color", "reflectance_front", "direct_direct", "rgb", "b">>,
      rb_b |-> <<"color", "reflectance_back", "direct_direct", "rgb", "b">> ]

\* the value stored at the end of `path`, null when a link is missing
Leaf(self, path) ==
    IF Raised(Attributes(Some(self), path)) THEN None
    ELSE Attributes(Some(self), path).value

\* C28: each convenience getter reads the leaf its name denotes: tf_tuv,
\* tf_spf, tf_tdw and tf_tkr return transmittance_front.direct_direct of the
\* tuv, spf, tdw and tkr results; tf_g, rf_g and rb_g return the rgb.g
\* component and tf_b, rf_b and rb_b the rgb.b component of the colour result.
C28_GettersReadTheLeafTheyName ==
    ret.op \in DOMAIN DenotedPath =>
        /\ ret.exc = None
        /\ ret.value = Leaf(values, DenotedPath[ret.op])

-----------------------------------------------------------------------------
(* Claims about MeasurementType.get_types *)

TransmittanceBackValues == {"tb", "tb_dir_dif", "tb_dir_hem"}

OtherMeasurementValues ==
    {"tf", "rf", "rb", "tf_dir_dif", "rf_dir_dif", "rb_dir_dif",
     "tf_dir_hem", "rf_dir_hem", "rb_dir_hem"}

Elements(s) == { s[i] : i \in DOMAIN s }

\* C29: get_types(include_tb=False) returns every measurement type except the
\* transmittance-back ones: none of 'tb', 'tb_dir_dif', 'tb_dir_hem' and all
\* nine other values; get_types(include_tb=True) returns all twelve values.
C29_GetTypesExcludesTransmittanceBack ==
    ret.op = "get_types" =>
        /\ ret.exc = None
        /\ ret.args = <<FALSE>> =>
              /\ Elements(Get(ret.value)) \cap TransmittanceBackValues = {}
              /\ OtherMeasurementValues \subseteq Elements(Get(ret.value))
        /\ ret.args = <<TRUE>> =>
              /\ Elements(Get(ret.value))
                    = TransmittanceBackValues \cup OtherMeasurementValues
              /\ Len(Get(ret.value)) = 12

\* what does hold: with include_tb true, or omitted, all twelve values are
\* returned, and with include_tb false the nine other values are returned
\* and 'tb_dir_dif' and 'tb_dir_hem' are not
C29_AllTwelveWithTB ==
    ret.op = "get_types" =>
        /\ ret.args # <<FALSE>> =>
              /\ Elements(Get(ret.value))
                    = TransmittanceBackValues \cup OtherMeasurementValues
              /\ Len(Get(ret.value)) = 12
        /\ ret.args = <<FALSE>> =>
              /\ OtherMeasurementValues \subseteq Elements(Get(ret.value))
              /\ Elements(Get(ret.value)) \cap {"tb_dir_dif", "tb_dir_hem"} = {}

-----------------------------------------------------------------------------
(* Claims about name and marketing_name *)

\* the assignment named op stored its argument in `field` of the description:
\* in a new description with every other field null when there was none,
\* otherwise in the present one with every other field kept
AssignsDescriptionField(op, field) ==
    ret'.op = op =>
        /\ ret'.exc = None
        /\ product'.product_description # None
        /\ Get(product'.product_description)[field] = ret'.args[1]
        /\ \A f \in DOMAIN DefaultProductDescription \ {field} :
              Get(product'.product_description)[f] =
                  IF product.product_description = None
                  THEN None
                  ELSE Get(product.product_description)[f]
        /\ \A f \in DOMAIN product \ {"product_description"} : product'[f] = product[f]

\* the read named op returned `field` of the description, null without one
ReadsDescriptionField(op, field) ==
    ret'.op = op =>
        /\ ret'.exc = None
        /\ ret'.value = IF product.product_description = None
                        THEN None
                        ELSE Get(product.product_description)[field]
        /\ product' = product

\* a read that follows an assignment of the same property returns the value
\* that was assigned
ReadsLastAssigned(setter, getter) ==
    ( ret.op = setter /\ ret'.op = getter ) => ret'.value = ret.args[1]

\* C30: for any sequence of assignments to name and marketing_name: with a
\* null product_description the assignment creates a ProductDescription
\* holding only the assigned field; with one present it changes only that
\* field and keeps every other description field (name then marketing_name
\* retains both); the getters return the last assigned value, and null when
\* product_description is null.
C30_NameAssignmentsKeepOtherFields ==
    [][ /\ AssignsDescriptionField("name_setter", "name")
        /\ AssignsDescriptionField("marketing_name_setter", "marketing_name")
        /\ ReadsDescriptionField("name_getter", "name")
        /\ ReadsDescriptionField("marketing_name_getter", "marketing_name")
        /\ ReadsLastAssigned("name_setter", "name_getter")
        /\ ReadsLastAssigned("marketing_name_setter", "marketing_name_getter")
      ]_vars

\* name was assigned over a description that holds a marketing name and
\* other fields, and all of them are retained
C30_Witness ==
    /\ ret.op = "name_setter"
    /\ ret.args = <<Some("Name B")>>
    /\ product.product_description =
           Some([DefaultProductDescription EXCEPT
                    !.name = Some("Name B"),
                    !.marketing_name = Some("Other name"),
                    !.short_description = Some("Short"),
                    !.marketing_url = Some("https://example.org")])

====
